---- MODULE Spec2Model ----
(***************************************************************************)
(* Job orchestration engine of internal-platform-sample.                   *)
(*                                                                         *)
(* Part I  : the file based request queue, the request repository and the  *)
(*           approval workflow (backend/infrastructure/queue_adapter.py,   *)
(*           backend/domain/models.py).                                    *)
(* Part II : the job record store, the submitter and the Terraform worker  *)
(*           (backend/utils/job_status.py, backend/application/services.py,*)
(*           backend/application/worker.py).                               *)
(* Part III: the endpoint approve_deployment_request                       *)
(*           (backend/interfaces/api/infrastructure.py).                   *)
(* Part IV : JobManager.add_job_log and the order of the log entries.      *)
(* Part V  : ConnectionManager (backend/interfaces/websocket_manager.py).  *)
(* Part VI : parse_terraform_error (backend/domain/utils.py).              *)
(* Part VII: template resolution, terraform.tfvars and the workspace       *)
(*           (backend/application/worker.py,                               *)
(*           backend/interfaces/api/jobs.py).                              *)
(* Part VIII: the deployment job of the jobs API                           *)
(*           (backend/interfaces/api/jobs.py).                             *)
(* Part IX : JobManager's calls on one record, with its request data.      *)
(* Part X  : RedisConnectionManager (backend/infrastructure/database.py).  *)
(***************************************************************************)
EXTENDS Integers, Sequences, FiniteSets, TLC

(***************************************************************************)
(* Bounds of the model.                                                    *)
(***************************************************************************)
NumWorkers == 3
MaxClock == 1
MaxReturns == 2
MaxSubmits == 1
MaxFaults == 1
MaxWarnings == 1
NumCalls == 2
NumLogWriters == 2
MaxAppends == 1002
MaxLogCalls == 4
MaxStamp == 2
NumSockets == 2
MaxSends == 2
MaxMoves == 2
MaxWords == 4
MaxCapitals == 1
MaxPrepares == 2
MaxTime == 1
MaxManagerCalls == 3
MaxManagerTime == 2
NumThreads == 2
MaxConstructions == 2

(***************************************************************************)
(* Part I - state.                                                         *)
(***************************************************************************)
VARIABLES
    storage,      \* FileBasedRequestRepository: storage/<id>.json
    pending,      \* FileBasedRequestQueue: queue/pending/<id>.json
    processing,   \* FileBasedRequestQueue: queue/processing/<id>.json
    now,          \* file system clock (st_ctime of a file is the time of its last write)
    dq,           \* per worker: the position and the locals of its dequeue() call
    retCount,     \* history: how often dequeue() has returned each request id
    decided,      \* history: an approve_request / reject_request call returned True
    submitErr     \* history: submit_request raised for this request id

qvars == <<storage, pending, processing, now, dq, retCount, decided, submitErr>>

(***************************************************************************)
(* Part II - state.  One job id; the submitter runs in the API process,    *)
(* the worker in the RQ worker process, and both read and write the job's  *)
(* record file through JobManager.                                         *)
(***************************************************************************)
VARIABLES
    jobRec,       \* JobManager: <storage_path>/<job_id>.json
    rq,           \* the RQ queue entry of the job: "none", "queued" or "taken"
    proc,         \* per process: position, locals and the record get_job returned
    cmds,         \* history: the external commands invoked, with their exit status
    faults        \* the I/O errors that may still be raised

jvars == <<jobRec, rq, proc, cmds, faults>>

(***************************************************************************)
(* Part III - state.  The endpoint approve_deployment_request              *)
(* (interfaces/api/infrastructure.py) over one deployment request row.     *)
(***************************************************************************)
VARIABLES
    dbReq,        \* the DeploymentRequest row of the request id
    call,         \* per endpoint call: position, action, job id, response
    launched       \* job ids handed to create_infrastructure, and whether queued

avars == <<dbReq, call, launched>>

(***************************************************************************)
(* Part IV - state.  The log list of one job record and the callers of     *)
(* add_job_log, with the timestamps of the entries.                        *)
(***************************************************************************)
VARIABLES
    jobLog,       \* job_record["logs"] as stored in the file
    writer,       \* per caller of add_job_log: position, record read, log_entry
    clk,          \* datetime.utcnow()
    calls         \* add_job_log calls begun so far

lvars == <<jobLog, writer, clk, calls>>

(***************************************************************************)
(* Part V - state.  ConnectionManager (interfaces/websocket_manager.py).   *)
(***************************************************************************)
VARIABLES
    active_connections,  \* job id -> the websockets subscribed to it
    connection_jobs,     \* websocket -> whether it is a key, and its job ids
    sending,             \* per send_to_job / broadcast call: position and locals
    delivered,           \* per websocket: the last message send_text handed to it
    moves                \* connect, subscribe, unsubscribe, disconnect calls so far

wvars == <<active_connections, connection_jobs, sending, delivered, moves>>

(***************************************************************************)
(* Part VI - state.  parse_terraform_error (domain/utils.py).               *)
(***************************************************************************)
VARIABLES
    error_output,         \* the text given to parse_terraform_error
    error_info            \* the dictionary it returned

cvars == <<error_output, error_info>>

(***************************************************************************)
(* Part VII - state.  The workspace of one job as the worker               *)
(* (application/worker.py) and the jobs API (interfaces/api/jobs.py)       *)
(* build it.                                                               *)
(***************************************************************************)
VARIABLES
    job_request,          \* the JobRequest / CreateJobRequest of the job
    templates,            \* the template directories on disk
    workspace,            \* per builder: the workspace directory of the job
    prepared,             \* per builder: the outcomes of the preparations so far
    utcnow                \* datetime.utcnow()

pvars == <<job_request, templates, workspace, prepared, utcnow>>

(***************************************************************************)
(* Part VIII - state.  The deployment job of the jobs API                   *)
(* (interfaces/api/jobs.py).                                               *)
(***************************************************************************)
VARIABLES
    deploy                \* job_storage[job_id] and the background task of the job

dvars == <<deploy>>

(***************************************************************************)
(* Part IX - state.  JobManager (utils/job_status.py) called by one        *)
(* caller at a time, for one job id.                                      *)
(***************************************************************************)
VARIABLES
    stored,               \* JobManager: <storage_path>/<job_id>.json, with its request data
    created,              \* history: the record the first create_job wrote
    last_call,            \* history: the last JobManager call, the record it found, its result
    mtime,                \* datetime.utcnow()
    mcalls                \* JobManager calls so far

mvars == <<stored, created, last_call, mtime, mcalls>>

(***************************************************************************)
(* Part X - state.  RedisConnectionManager (infrastructure/database.py)    *)
(* constructed by the threads of one process.                             *)
(***************************************************************************)
VARIABLES
    instance,             \* RedisConnectionManager._instance: an object, or NoObject
    objects,              \* the RedisConnectionManager objects made, with their two pool attributes
    pools,                \* the ConnectionPool objects made, in order: "general" or "rq"
    thread,               \* per thread: its place in RedisConnectionManager(), its locals
    yielded               \* history: the objects that RedisConnectionManager() has returned

svars == <<instance, objects, pools, thread, yielded>>

vars == <<qvars, jvars, avars, lvars, wvars, cvars, pvars, dvars, mvars, svars>>

\* What the actions of one part leave alone.
offQueue == <<jvars, avars, lvars, wvars, cvars, pvars, dvars, mvars, svars>>
offJobs == <<qvars, avars, lvars, wvars, cvars, pvars, dvars, mvars, svars>>
offApproval == <<qvars, jvars, lvars, wvars, cvars, pvars, dvars, mvars, svars>>
offLog == <<qvars, jvars, avars, wvars, cvars, pvars, dvars, mvars, svars>>
offSockets == <<qvars, jvars, avars, lvars, cvars, pvars, dvars, mvars, svars>>
offClassifier == <<qvars, jvars, avars, lvars, wvars, pvars, dvars, mvars, svars>>
offWorkspace == <<qvars, jvars, avars, lvars, wvars, cvars, dvars, mvars, svars>>
offDeployment == <<qvars, jvars, avars, lvars, wvars, cvars, mvars, svars>>
offManager == <<qvars, jvars, avars, lvars, wvars, cvars, pvars, dvars, svars>>
offSingleton == <<qvars, jvars, avars, lvars, wvars, cvars, pvars, dvars, mvars>>

Requests == {"r1", "r2", "r3"}
Approvers == {"alice", "bob"}
Reasons == {"no budget"}
Workers == 1..NumWorkers
Clock == 0..MaxClock

None == "None"

\* domain/models.py: RequestStatus
RequestStatus == {"pending", "in_progress", "completed", "failed", "rejected"}

\* domain/models.py: ProvisioningRequest (the fields the workflow reads or writes)
ProvisioningRequest(id, status, approver, reason) ==
    [id |-> id, status |-> status, approver |-> approver, rejection_reason |-> reason]

\* use_cases.py: SubmitRequestUseCase.execute builds the request with status PENDING
NewRequest(id) == ProvisioningRequest(id, "pending", None, None)

\* domain/models.py: mark_in_progress
mark_in_progress(req) == [req EXCEPT !.status = "in_progress"]

\* domain/models.py: mark_approved sets the approver only
mark_approved(req, approver) == [req EXCEPT !.approver = approver]

\* domain/models.py: mark_rejected
mark_rejected(req, approver, reason) ==
    [req EXCEPT !.status = "rejected", !.approver = approver, !.rejection_reason = reason]

\* No request: find_by_id returned None, a local not yet assigned.
NoRequest == ProvisioningRequest(None, None, None, None)

\* A file of a queue directory: the dumped request and the file's st_ctime.
QueueFile(req, t) == [req |-> req, ctime |-> t]

\* The path does not exist.
NoFile == QueueFile(NoRequest, 0)

\* The content of a file that json.load or ProvisioningRequest(**request_data) rejects.
Unparsable == ProvisioningRequest(None, "unparsable", None, None)

PendingFiles(dir) == {f \in Requests : dir[f] # NoFile}

(***************************************************************************)
(* FileBasedRequestQueue.enqueue: open(pending/<id>.json, 'w') and dump.   *)
(* ok = FALSE is the except branch (the write raised): returns False.      *)
(***************************************************************************)
EnqueueWrite(dir, req, t, ok) ==
    IF ok THEN [dir EXCEPT ![req.id] = QueueFile(req, t)] ELSE dir

\* FileBasedRequestRepository.save / update: write storage/<id>.json
RepositorySave(store, req, ok) ==
    IF ok THEN [store EXCEPT ![req.id] = req] ELSE store

(***************************************************************************)
(* FileBasedRequestQueue.dequeue, one action per file system call.         *)
(***************************************************************************)
IdleCall == [pc |-> "idle", files |-> {}, oldest |-> None, req |-> NoRequest, ret |-> None]

Done(ret) == [pc |-> "done", files |-> {}, oldest |-> None, req |-> NoRequest, ret |-> ret]

\* pending_files = list(self.pending_dir.glob("*.json")); if not pending_files: return None
DequeueList(w) ==
    /\ dq[w].pc = "idle"
    /\ LET files == PendingFiles(pending) IN
         dq' = [dq EXCEPT ![w] =
                   IF files = {} THEN Done(None)
                   ELSE [@ EXCEPT !.pc = "listed", !.files = files]]
    /\ UNCHANGED <<storage, pending, processing, now, retCount, decided, submitErr>>
    /\ UNCHANGED offQueue

\* The files of the listing with the least st_ctime (min returns one of them).
Oldest(dir, files) ==
    {f \in files : \A g \in files : dir[f].ctime <= dir[g].ctime}

\* oldest_file = min(pending_files, key=lambda x: x.stat().st_ctime)
\* stat() of a listed file that has been renamed away raises: except branch, None.
DequeueStat(w) ==
    /\ dq[w].pc = "listed"
    /\ IF \E f \in dq[w].files : pending[f] = NoFile
       THEN dq' = [dq EXCEPT ![w] = Done(None)]
       ELSE \E f \in Oldest(pending, dq[w].files) :
                dq' = [dq EXCEPT ![w] = [@ EXCEPT !.pc = "chosen", !.oldest = f]]
    /\ UNCHANGED <<storage, pending, processing, now, retCount, decided, submitErr>>
    /\ UNCHANGED offQueue

\* with open(oldest_file) as f: request_data = json.load(f); ProvisioningRequest(**request_data)
\* A file that is gone or does not parse raises: except branch, None.
DequeueRead(w) ==
    /\ dq[w].pc = "chosen"
    /\ LET f == dq[w].oldest IN
         dq' = [dq EXCEPT ![w] =
                   IF pending[f] = NoFile \/ pending[f].req = Unparsable THEN Done(None)
                   ELSE [@ EXCEPT !.pc = "read", !.req = pending[f].req]]
    /\ UNCHANGED <<storage, pending, processing, now, retCount, decided, submitErr>>
    /\ UNCHANGED offQueue

\* A rename that does not notice that the source is gone (copy, then unlink).
RenameBlind(dir, f) == TRUE

\* oldest_file.rename(processing_file): atomic, raises when the source is gone
RenameSucceeds(dir, f) == dir[f] # NoFile

Bump(n) == IF n < MaxReturns THEN n + 1 ELSE n

DequeueRename(w) ==
    /\ dq[w].pc = "read"
    /\ LET f == dq[w].oldest IN
         IF RenameSucceeds(pending, f)
         THEN /\ processing' = [processing EXCEPT ![f] =
                                   IF pending[f] = NoFile THEN QueueFile(dq[w].req, now)
                                   ELSE pending[f]]
              /\ pending' = [pending EXCEPT ![f] = NoFile]
              /\ dq' = [dq EXCEPT ![w] = Done(dq[w].req.id)]
              /\ retCount' = [retCount EXCEPT ![f] = Bump(@)]
         ELSE /\ dq' = [dq EXCEPT ![w] = Done(None)]
              /\ UNCHANGED <<pending, processing, retCount>>
    /\ UNCHANGED <<storage, now, decided, submitErr>>
    /\ UNCHANGED offQueue

\* The worker calls dequeue() again.
DequeueAgain(w) ==
    /\ dq[w].pc = "done"
    /\ dq' = [dq EXCEPT ![w] = IdleCall]
    /\ UNCHANGED <<storage, pending, processing, now, retCount, decided, submitErr>>
    /\ UNCHANGED offQueue

\* Time passes on the file system clock.
Tick ==
    /\ now < MaxClock
    /\ now' = now + 1
    /\ UNCHANGED <<storage, pending, processing, dq, retCount, decided, submitErr>>
    /\ UNCHANGED offQueue

(***************************************************************************)
(* QueueProvisioningService.  The handlers are coroutines of one event     *)
(* loop and never suspend (the file adapters do blocking I/O), so each one *)
(* is a single step.  saveOk / enqOk = FALSE: the adapter caught an I/O    *)
(* error and returned False.                                               *)
(***************************************************************************)

\* The request ids in use: SubmitRequestUseCase.execute draws a fresh uuid4 per request.
Submitted ==
    {r \in Requests : storage[r] # NoRequest \/ pending[r] # NoFile \/ processing[r] # NoFile
                         \/ submitErr[r]}

\* submit_request: repository.save(request); queue.enqueue(request); raise if not success
SubmitRequest(id, saveOk, enqOk) ==
    /\ id \notin Submitted /\ Cardinality(Submitted) < MaxSubmits
    /\ storage' = RepositorySave(storage, NewRequest(id), saveOk)
    /\ pending' = EnqueueWrite(pending, NewRequest(id), now, enqOk)
    /\ submitErr' = [submitErr EXCEPT ![id] = ~enqOk]
    /\ UNCHANGED <<processing, now, dq, retCount, decided>>
    /\ UNCHANGED offQueue

\* approve_request: find_by_id; mark_approved; mark_in_progress; update; enqueue
ApproveRequest(id, approver, saveOk, enqOk) ==
    /\ storage[id] # NoRequest
    /\ LET req == mark_in_progress(mark_approved(storage[id], approver)) IN
         /\ storage' = RepositorySave(storage, req, saveOk)
         /\ pending' = EnqueueWrite(pending, req, now, enqOk)
    /\ decided' = [decided EXCEPT ![id] = @ \/ enqOk]
    /\ UNCHANGED <<processing, now, dq, retCount, submitErr>>
    /\ UNCHANGED offQueue

\* reject_request: find_by_id; mark_rejected; return update(request)
RejectRequest(id, approver, reason, saveOk) ==
    /\ storage[id] # NoRequest
    /\ storage' = RepositorySave(storage, mark_rejected(storage[id], approver, reason), saveOk)
    /\ decided' = [decided EXCEPT ![id] = @ \/ saveOk]
    /\ UNCHANGED <<pending, processing, now, dq, retCount, submitErr>>
    /\ UNCHANGED offQueue

(***************************************************************************)
(* Part II - the job record store (utils/job_status.py).                   *)
(***************************************************************************)
\* utils/job_status.py: JobStatus
JobStatus == {"pending", "queued", "running", "completed", "failed", "cancelled"}

Terminal == {"completed", "failed", "cancelled"}

JobRecord(exists, status, started, completed, error, output, logs) ==
    [exists |-> exists, status |-> status, started_at |-> started,
     completed_at |-> completed, error_message |-> error,
     terraform_output |-> output, logs |-> logs]

\* get_job: the file does not exist (or does not parse): None
NoJob == JobRecord(FALSE, None, FALSE, FALSE, None, None, <<>>)

\* create_job: the new record
NewJob == JobRecord(TRUE, "pending", FALSE, FALSE, None, None, <<>>)

LogEntry(level, message, cmd) == [level |-> level, message |-> message, cmd |-> cmd]

\* update_job_status, from the record get_job returned to the record _save_job writes.
\* The optional values are stored only when truthy.
SetStatus(rec, status, error, output) ==
    [rec EXCEPT
        !.status = status,
        !.started_at = @ \/ (status = "running"),
        !.completed_at = @ \/ (status \in Terminal),
        !.error_message = IF error # None THEN error ELSE @,
        !.terraform_output = IF output \notin {None, "empty"} THEN output ELSE @]

\* What the record keeps of a failure: update_job_status stores the text it was
\* given under error_message, and a record has no field for a category.
RecordedError(rec) == [message |-> rec.error_message, type |-> None]

\* add_job_log, from the record get_job returned to the record _save_job writes
AppendLog(rec, entry) == [rec EXCEPT !.logs = Append(@, entry)]

\* The keyword parameters of JobManager.update_job_status.
StatusKeywords == {"error_message", "terraform_output"}

\* update_job_status(job_id, status, **kwargs): an unknown keyword is a TypeError
KeywordsAccepted(kwargs) == kwargs \subseteq StatusKeywords

(***************************************************************************)
(* The processes.  A record site is a call of add_job_log or               *)
(* update_job_status: the process reads the record (GetJob) and then       *)
(* writes it back changed (AddJobLog, UpdateJobStatus).                    *)
(***************************************************************************)
Procs == {"sub", "wk"}

Commands == <<"init", "plan", "apply", "output">>

Locals(pc, cmd, success, out, err, json, emsg) ==
    [pc |-> pc, read |-> FALSE, held |-> NoJob, cmd |-> cmd, success |-> success,
     out |-> out, err |-> err, json |-> json, emsg |-> emsg]

At(pc) == Locals(pc, None, FALSE, FALSE, FALSE, FALSE, None)

\* The process moves on: the locals stay, the snapshot of the record is dropped.
Goto(q, pc) == [q EXCEPT !.pc = pc, !.read = FALSE, !.held = NoJob]

\* An exception with message emsg reaches the handler at pc.
Raise(q, pc, emsg) == [Goto(q, pc) EXCEPT !.emsg = emsg]

LogSites ==
    {"s_log_started", "s_log_queued", "s_fail_log",
     "w_log_start", "w_log_template", "w_log_fallback", "w_log_workspace",
     "w_log_prep_error", "w_log_exec", "w_log_stdout", "w_log_stderr",
     "w_log_cmderr", "w_log_parsewarn", "w_log_completed", "w_log_failed"}

StatusSites ==
    {"s_status_running", "s_fail_status_w",
     "w_status_running", "w_status_completed", "w_fail_status"}

\* The entry each add_job_log call appends.
SiteEntry(q) ==
    CASE q.pc = "s_log_started"    -> LogEntry("INFO", "Started process", None)
      [] q.pc = "s_log_queued"     -> LogEntry("INFO", "Job queued in Redis", None)
      [] q.pc = "s_fail_log"       -> LogEntry("INFO", "Failed to queue job", None)
      [] q.pc = "w_log_start"      -> LogEntry("INFO", "Starting job", None)
      [] q.pc = "w_log_template"   -> LogEntry("INFO", "Using template", None)
      [] q.pc = "w_log_fallback"   -> LogEntry("WARNING", "Using fallback template", None)
      [] q.pc = "w_log_workspace"  -> LogEntry("INFO", "Workspace prepared", None)
      [] q.pc = "w_log_prep_error" -> LogEntry("ERROR", "Failed to prepare workspace", None)
      [] q.pc = "w_log_exec"       -> LogEntry("INFO", "Executing", q.cmd)
      [] q.pc = "w_log_stdout"     -> LogEntry("INFO", "STDOUT", q.cmd)
      [] q.pc = "w_log_stderr"     ->
             LogEntry(IF q.success THEN "WARNING" ELSE "ERROR", "STDERR", q.cmd)
      [] q.pc = "w_log_cmderr"     -> LogEntry("ERROR", "Command execution failed", q.cmd)
      [] q.pc = "w_log_parsewarn"  ->
             LogEntry("WARNING", "Failed to parse terraform outputs", None)
      [] q.pc = "w_log_completed"  -> LogEntry("INFO", "Job completed successfully", None)
      [] q.pc = "w_log_failed"     -> LogEntry("ERROR", "Job failed", None)

\* The arguments of each update_job_status call: <<status, error_message, terraform_output>>.
SiteStatus(q) ==
    CASE q.pc = "s_status_running"   -> <<"running", None, None>>
      [] q.pc = "s_fail_status_w"    -> <<"failed", None, None>>
      [] q.pc = "w_status_running"   -> <<"running", None, None>>
      [] q.pc = "w_status_completed" ->
             <<"completed", None, IF q.success /\ q.out /\ q.json THEN "outputs" ELSE "empty">>
      [] q.pc = "w_fail_status"      -> <<"failed", q.emsg, None>>

\* raise Exception(f"Terraform init failed: {stderr}"), and so for plan and apply
CommandFailed(cmd) ==
    CASE cmd = "init" -> "Terraform init failed"
      [] cmd = "plan" -> "Terraform plan failed"
      [] cmd = "apply" -> "Terraform apply failed"

NextCommand(cmd) ==
    CASE cmd = "init" -> "plan" [] cmd = "plan" -> "apply" [] cmd = "apply" -> "output"

\* run_terraform_command has returned (success, stdout, stderr) to
\* TerraformWorker.process_infrastructure_job.
CommandReturned(q) ==
    IF q.cmd = "output"
    THEN IF q.success /\ q.out /\ ~q.json
         THEN Goto(q, "w_log_parsewarn")
         ELSE Goto(q, "w_status_completed")
    ELSE IF q.success
         THEN [Goto(q, "w_log_exec") EXCEPT !.cmd = NextCommand(q.cmd)]
         ELSE Raise(q, "w_fail_status", CommandFailed(q.cmd))

\* Where the process continues when the call at its site has returned.
After(q) ==
    CASE q.pc = "s_log_started"      -> Goto(q, "s_enqueue")
      [] q.pc = "s_log_queued"       -> Goto(q, "s_status_running")
      [] q.pc = "s_status_running"   -> Goto(q, "s_returned")
      [] q.pc = "s_fail_status_w"    -> Goto(q, "s_fail_log")
      [] q.pc = "s_fail_log"         -> Goto(q, "s_raised")
      [] q.pc = "w_log_start"        -> Goto(q, "w_status_running")
      [] q.pc = "w_status_running"   -> Goto(q, "w_prepare")
      [] q.pc = "w_log_template"     -> Goto(q, "w_tfvars")
      [] q.pc = "w_log_fallback"     -> Goto(q, "w_tfvars")
      [] q.pc = "w_log_workspace"    -> [Goto(q, "w_log_exec") EXCEPT !.cmd = "init"]
      [] q.pc = "w_log_prep_error"   -> Goto(q, "w_fail_status")
      [] q.pc = "w_log_exec"         -> Goto(q, "w_popen")
      [] q.pc = "w_log_stdout"       ->
             IF q.err THEN Goto(q, "w_log_stderr") ELSE CommandReturned(q)
      [] q.pc = "w_log_stderr"       -> CommandReturned(q)
      [] q.pc = "w_log_cmderr"       ->
             CommandReturned([q EXCEPT !.success = FALSE, !.out = FALSE])
      [] q.pc = "w_log_parsewarn"    -> Goto(q, "w_status_completed")
      [] q.pc = "w_status_completed" -> Goto(q, "w_log_completed")
      [] q.pc = "w_log_completed"    -> Goto(q, "w_returned")
      [] q.pc = "w_fail_status"      -> Goto(q, "w_log_failed")
      [] q.pc = "w_log_failed"       -> Goto(q, "w_returned")

\* The handler an exception raised by the call at the site reaches.
OnRaise(q, emsg) ==
    CASE q.pc \in {"s_log_started", "s_fail_status_w", "s_fail_log"} ->
             Raise(q, "s_raised", emsg)
      [] q.pc \in {"s_log_queued", "s_status_running"} -> Raise(q, "s_fail_status", emsg)
      [] q.pc \in {"w_log_template", "w_log_fallback", "w_log_workspace"} ->
             Raise(q, "w_log_prep_error", emsg)
      [] q.pc \in {"w_log_exec", "w_log_stdout", "w_log_stderr"} ->
             Raise(q, "w_log_cmderr", emsg)
      [] q.pc \in {"w_log_start", "w_status_running", "w_log_prep_error", "w_log_cmderr",
                   "w_log_parsewarn", "w_status_completed", "w_log_completed"} ->
             Raise(q, "w_fail_status", emsg)
      [] q.pc \in {"w_fail_status", "w_log_failed"} -> Raise(q, "w_raised", emsg)

(***************************************************************************)
(* JobManager calls.  A fault is an I/O error: get_job finds no readable   *)
(* record (it returns None and the caller raises ValueError), _save_job    *)
(* raises RuntimeError.                                                    *)
(***************************************************************************)
LogCap == 1000

\* job_record["logs"][:1000]
KeepFirst(logs) == IF Len(logs) > LogCap THEN SubSeq(logs, 1, LogCap) ELSE logs

\* job_record["logs"] = job_record["logs"][-1000:]
KeepLast(logs) ==
    IF Len(logs) > LogCap THEN SubSeq(logs, Len(logs) - LogCap + 1, Len(logs)) ELSE logs

MayFault == faults > 0

\* job_record = self.get_job(job_id); if not job_record: raise ValueError
GetJob(p) ==
    /\ proc[p].pc \in LogSites \cup StatusSites
    /\ ~proc[p].read
    /\ \/ /\ jobRec.exists
          /\ proc' = [proc EXCEPT ![p] = [@ EXCEPT !.read = TRUE, !.held = jobRec]]
          /\ UNCHANGED faults
       \/ /\ ~jobRec.exists
          /\ proc' = [proc EXCEPT ![p] = OnRaise(@, "Job not found")]
          /\ UNCHANGED faults
       \/ /\ jobRec.exists /\ MayFault
          /\ proc' = [proc EXCEPT ![p] = OnRaise(@, "Job not found")]
          /\ faults' = faults - 1
    /\ UNCHANGED <<jobRec, rq, cmds>>
    /\ UNCHANGED offJobs

\* add_job_log: append the entry to the record read, keep the last 1000, _save_job
AddJobLog(p) ==
    /\ proc[p].pc \in LogSites
    /\ proc[p].read
    /\ \/ /\ jobRec' = [AppendLog(proc[p].held, SiteEntry(proc[p])) EXCEPT
                           !.logs = KeepLast(@)]
          /\ proc' = [proc EXCEPT ![p] = After(@)]
          /\ UNCHANGED faults
       \/ /\ MayFault
          /\ proc' = [proc EXCEPT ![p] = OnRaise(@, "Failed to save job")]
          /\ faults' = faults - 1
          /\ UNCHANGED jobRec
    /\ UNCHANGED <<rq, cmds>>
    /\ UNCHANGED offJobs

\* update_job_status: set the status in the record read, _save_job
UpdateJobStatus(p) ==
    /\ proc[p].pc \in StatusSites
    /\ proc[p].read
    /\ \/ /\ LET a == SiteStatus(proc[p]) IN
               jobRec' = SetStatus(proc[p].held, a[1], a[2], a[3])
          /\ proc' = [proc EXCEPT ![p] = After(@)]
          /\ UNCHANGED faults
       \/ /\ MayFault
          /\ proc' = [proc EXCEPT ![p] = OnRaise(@, "Failed to save job")]
          /\ faults' = faults - 1
          /\ UNCHANGED jobRec
    /\ UNCHANGED <<rq, cmds>>
    /\ UNCHANGED offJobs

(***************************************************************************)
(* InfrastructureService.create_infrastructure / destroy_infrastructure.   *)
(***************************************************************************)
\* create_job(job_id, job_data): writes the new record without reading
CreateJob ==
    /\ proc["sub"].pc = "s_idle"
    /\ \/ /\ jobRec' = NewJob
          /\ proc' = [proc EXCEPT !["sub"] = Goto(@, "s_log_started")]
          /\ UNCHANGED faults
       \/ /\ MayFault
          /\ proc' = [proc EXCEPT !["sub"] = Raise(@, "s_raised", "Failed to save job")]
          /\ faults' = faults - 1
          /\ UNCHANGED jobRec
    /\ UNCHANGED <<rq, cmds>>
    /\ UNCHANGED offJobs

\* job_queue.enqueue(process_infrastructure_job, job_data, job_id=job_id, ...)
Enqueue(ok) ==
    /\ proc["sub"].pc = "s_enqueue"
    /\ IF ok
       THEN /\ rq' = "queued"
            /\ proc' = [proc EXCEPT !["sub"] = Goto(@, "s_log_queued")]
       ELSE /\ proc' = [proc EXCEPT !["sub"] = Raise(@, "s_fail_status", "Redis unavailable")]
            /\ UNCHANGED rq
    /\ UNCHANGED <<jobRec, cmds, faults>>
    /\ UNCHANGED offJobs

\* except Exception as e: update_job_status(job_id, UtilsJobStatus.FAILED, error=str(e))
FailedToQueue ==
    /\ proc["sub"].pc = "s_fail_status"
    /\ proc' = [proc EXCEPT !["sub"] =
                   IF KeywordsAccepted({"error"})
                   THEN Goto(@, "s_fail_status_w")
                   ELSE Raise(@, "s_raised", "TypeError")]
    /\ UNCHANGED <<jobRec, rq, cmds, faults>>
    /\ UNCHANGED offJobs

(***************************************************************************)
(* The worker: process_infrastructure_job(job_data) and                    *)
(* TerraformWorker.process_infrastructure_job.                             *)
(***************************************************************************)
\* RQ hands the job to the worker; JobRequest(...) and TerraformWorker() are built.
\* built = FALSE: one of them raised, and the function raises "Job processing failed".
WorkerStart(built) ==
    /\ proc["wk"].pc = "w_idle"
    /\ rq = "queued"
    /\ rq' = "taken"
    /\ proc' = [proc EXCEPT !["wk"] =
                   IF built THEN Goto(@, "w_log_start")
                   ELSE Raise(@, "w_raised", "Job processing failed")]
    /\ UNCHANGED <<jobRec, cmds, faults>>
    /\ UNCHANGED offJobs

Templates == {"primary", "fallback", "none"}

\* The commands so far that succeeded and wrote to stderr.
Warnings == Cardinality({i \in 1..Len(cmds) : cmds[i].success /\ cmds[i].err})

\* prepare_terraform_workspace: the template directory, a fallback, or neither exists
PrepareWorkspace(t) ==
    /\ proc["wk"].pc = "w_prepare"
    /\ proc' = [proc EXCEPT !["wk"] =
                   CASE t = "primary"  -> Goto(@, "w_log_template")
                     [] t = "fallback" -> Goto(@, "w_log_fallback")
                     [] t = "none"     -> Raise(@, "w_log_prep_error", "No suitable template")]
    /\ UNCHANGED <<jobRec, rq, cmds, faults>>
    /\ UNCHANGED offJobs

\* tfvars_content = self.generate_tfvars(job_request); write terraform.tfvars
WriteTfvars ==
    /\ proc["wk"].pc = "w_tfvars"
    /\ \/ /\ proc' = [proc EXCEPT !["wk"] = Goto(@, "w_log_workspace")]
          /\ UNCHANGED faults
       \/ /\ MayFault
          /\ proc' = [proc EXCEPT !["wk"] =
                         Raise(@, "w_log_prep_error", "Failed to write terraform.tfvars")]
          /\ faults' = faults - 1
    /\ UNCHANGED <<jobRec, rq, cmds>>
    /\ UNCHANGED offJobs

\* subprocess.Popen(cmd, ...); process.communicate(); success = returncode == 0
\* init, plan and apply print to stdout when they succeed; json tells whether the
\* stdout of a successful output command parses.
RunCommand(success, out, err, json) ==
    /\ proc["wk"].pc = "w_popen"
    /\ (success /\ proc["wk"].cmd # "output") => out
    /\ (success /\ err) => Warnings < MaxWarnings
    /\ json => (proc["wk"].cmd = "output" /\ success /\ out)
    /\ cmds' = Append(cmds, [cmd |-> proc["wk"].cmd, success |-> success, err |-> err])
    /\ LET q == [proc["wk"] EXCEPT !.success = success, !.out = out, !.err = err,
                                   !.json = json] IN
         proc' = [proc EXCEPT !["wk"] =
                     IF out THEN Goto(q, "w_log_stdout")
                     ELSE IF err THEN Goto(q, "w_log_stderr")
                     ELSE CommandReturned(q)]
    /\ UNCHANGED <<jobRec, rq, faults>>
    /\ UNCHANGED offJobs

\* subprocess.Popen raises (the binary or the directory is missing)
PopenRaises ==
    /\ proc["wk"].pc = "w_popen"
    /\ MayFault
    /\ faults' = faults - 1
    /\ proc' = [proc EXCEPT !["wk"] = Raise(@, "w_log_cmderr", "Command execution failed")]
    /\ UNCHANGED <<jobRec, rq, cmds>>
    /\ UNCHANGED offJobs

InitJobs ==
    /\ jobRec = NoJob
    /\ rq = "none"
    /\ proc = [p \in Procs |-> IF p = "sub" THEN At("s_idle") ELSE At("w_idle")]
    /\ cmds = <<>>
    /\ faults = 0

\* The same, with up to MaxFaults I/O errors.
InitJobFaults ==
    /\ jobRec = NoJob
    /\ rq = "none"
    /\ proc = [p \in Procs |-> IF p = "sub" THEN At("s_idle") ELSE At("w_idle")]
    /\ cmds = <<>>
    /\ faults = MaxFaults

NextJobs ==
    \/ CreateJob
    \/ \E ok \in BOOLEAN : Enqueue(ok)
    \/ FailedToQueue
    \/ \E built \in BOOLEAN : WorkerStart(built)
    \/ \E t \in Templates : PrepareWorkspace(t)
    \/ WriteTfvars
    \/ \E success \in BOOLEAN, out \in BOOLEAN, err \in BOOLEAN, json \in BOOLEAN :
           RunCommand(success, out, err, json)
    \/ \E p \in Procs : GetJob(p)
    \/ \E p \in Procs : AddJobLog(p)
    \/ \E p \in Procs : UpdateJobStatus(p)

NextJobFaults ==
    \/ NextJobs
    \/ PopenRaises

(***************************************************************************)
(* Part III - approve_deployment_request.  Each call runs on the event     *)
(* loop and yields at its awaits: the read of the row, the update, the     *)
(* delete.  create_infrastructure has no await inside and runs in one      *)
(* step.                                                                   *)
(***************************************************************************)
Calls == 1..NumCalls

Actions == {"approve", "reject"}

\* job_id of a row before an approval sets it
NoJobId == 0

\* The columns of the DeploymentRequest row the endpoint reads and writes.
DeploymentRequest(exists, status, approved_by, job_id) ==
    [exists |-> exists, status |-> status, approved_by |-> approved_by,
     job_id |-> job_id]

\* result.scalar_one_or_none() finds no row
NoRow == DeploymentRequest(FALSE, None, None, NoJobId)

PendingRow == DeploymentRequest(TRUE, "pending", None, NoJobId)

\* update_deployment_request_async: setattr for every key, commit; FALSE when
\* the row is missing or the commit fails (rollback), and nothing changes.
UpdateRow(row, status, approved_by, job_id, ok) ==
    IF row.exists /\ ok
    THEN [row EXCEPT !.status = status,
                     !.approved_by = IF approved_by # None THEN approved_by ELSE @,
                     !.job_id = IF job_id # NoJobId THEN job_id ELSE @]
    ELSE row

\* delete_deployment_request_async
DeleteRow(row, ok) == IF row.exists /\ ok THEN NoRow ELSE row

EndpointCall(pc, action, job_id, response) ==
    [pc |-> pc, action |-> action, job_id |-> job_id, response |-> response]

NotCalled == EndpointCall("idle", None, NoJobId, None)

Respond(c, response) == [c EXCEPT !.pc = "done", !.response = response]

\* if str(request.status) != "pending": raise HTTPException(400, ...)
StillPending(row) == row.status = "pending"

\* request = await get_deployment_request_async(request_id); the 404 and 400
\* checks; job_id = str(uuid.uuid4())
GetRequest(c, action) ==
    /\ call[c].pc = "idle"
    /\ call' = [call EXCEPT ![c] =
                   IF ~dbReq.exists THEN Respond([@ EXCEPT !.action = action], "404")
                   ELSE IF ~StillPending(dbReq)
                        THEN Respond([@ EXCEPT !.action = action], "400")
                   ELSE IF action = "approve"
                        THEN EndpointCall("update", action, c, None)
                        ELSE EndpointCall("delete", action, NoJobId, None)]
    /\ UNCHANGED <<dbReq, launched>>
    /\ UNCHANGED offApproval

\* await update_deployment_request_async(request_id, updates); the result is dropped
UpdateApproved(c, ok) ==
    /\ call[c].pc = "update"
    /\ dbReq' = UpdateRow(dbReq, "approved", "admin", call[c].job_id, ok)
    /\ call' = [call EXCEPT ![c].pc = "create"]
    /\ UNCHANGED launched
    /\ UNCHANGED offApproval

\* await infrastructure_service.create_infrastructure(job_id=job_id, ...):
\* the job record is created and the job enqueued, or enqueue raises
CreateInfrastructure(c, queued) ==
    /\ call[c].pc = "create"
    /\ launched' = launched \cup {[job_id |-> call[c].job_id, queued |-> queued]}
    /\ call' = [call EXCEPT ![c] =
                   IF queued THEN Respond(@, "approved") ELSE [@ EXCEPT !.pc = "failed"]]
    /\ UNCHANGED dbReq
    /\ UNCHANGED offApproval

\* except: await update_deployment_request_async(request_id, {"status": "failed"})
MarkFailed(c, ok) ==
    /\ call[c].pc = "failed"
    /\ dbReq' = UpdateRow(dbReq, "failed", None, NoJobId, ok)
    /\ call' = [call EXCEPT ![c] = Respond(@, "500")]
    /\ UNCHANGED launched
    /\ UNCHANGED offApproval

\* await delete_deployment_request_async(request_id); "Request rejected and removed"
DeleteRequest(c, ok) ==
    /\ call[c].pc = "delete"
    /\ dbReq' = DeleteRow(dbReq, ok)
    /\ call' = [call EXCEPT ![c] = Respond(@, "deleted")]
    /\ UNCHANGED launched
    /\ UNCHANGED offApproval

InitApproval ==
    /\ dbReq = PendingRow
    /\ call = [c \in Calls |-> NotCalled]
    /\ launched = {}

NextApproval ==
    \/ \E c \in Calls, action \in Actions : GetRequest(c, action)
    \/ \E c \in Calls, ok \in BOOLEAN : UpdateApproved(c, ok)
    \/ \E c \in Calls, queued \in BOOLEAN : CreateInfrastructure(c, queued)
    \/ \E c \in Calls, ok \in BOOLEAN : MarkFailed(c, ok)
    \/ \E c \in Calls, ok \in BOOLEAN : DeleteRequest(c, ok)

(***************************************************************************)
(* Part IV - JobManager.add_job_log with its timestamps.  A call reads the *)
(* record, builds the entry with the time of that moment, appends it to    *)
(* the list it read, cuts the list to the last 1000 and writes the record. *)
(***************************************************************************)
LogWriters == 1..NumLogWriters

\* log_entry = {"timestamp": ..., "level": level, "message": message}; the
\* message of a call is its number
StampedEntry(timestamp, message) ==
    [timestamp |-> timestamp, level |-> "INFO", message |-> message]

NoEntry == StampedEntry(0, 0)

WriterAt(pc, held, entry) == [pc |-> pc, held |-> held, entry |-> entry]

\* job_record["logs"].append(log_entry)
PrependEntry(logs, entry) == <<entry>> \o logs
AddEntry(logs, entry) == Append(logs, entry)

\* job_record = self.get_job(job_id)
LogGet(w, limit) ==
    /\ writer[w].pc = "idle"
    /\ calls < limit
    /\ calls' = calls + 1
    /\ writer' = [writer EXCEPT ![w] = WriterAt("stamp", jobLog, NoEntry)]
    /\ UNCHANGED <<jobLog, clk>>
    /\ UNCHANGED offLog

\* log_entry = {"timestamp": datetime.utcnow().isoformat(), ...}
LogStamp(w) ==
    /\ writer[w].pc = "stamp"
    /\ writer' = [writer EXCEPT ![w] = WriterAt("save", @.held, StampedEntry(clk, calls))]
    /\ UNCHANGED <<jobLog, clk, calls>>
    /\ UNCHANGED offLog

\* append, keep the last 1000, self._save_job(job_id, job_record)
LogSave(w) ==
    /\ writer[w].pc = "save"
    /\ jobLog' = KeepLast(AddEntry(writer[w].held, writer[w].entry))
    /\ writer' = [writer EXCEPT ![w] = WriterAt("idle", <<>>, NoEntry)]
    /\ UNCHANGED <<clk, calls>>
    /\ UNCHANGED offLog

\* time passes
LogTick ==
    /\ clk < MaxStamp
    /\ clk' = clk + 1
    /\ UNCHANGED <<jobLog, writer, calls>>
    /\ UNCHANGED offLog

InitLog ==
    /\ jobLog = <<>>
    /\ writer = [w \in LogWriters |-> WriterAt("idle", <<>>, NoEntry)]
    /\ clk = 0
    /\ calls = 0

\* One caller, one call after the other.
NextSingleWriter ==
    \/ LogGet(1, MaxAppends)
    \/ LogStamp(1)
    \/ LogSave(1)

\* Several callers at once.
NextLogWriters ==
    \/ \E w \in LogWriters : LogGet(w, MaxLogCalls)
    \/ \E w \in LogWriters : LogStamp(w)
    \/ \E w \in LogWriters : LogSave(w)
    \/ LogTick

(***************************************************************************)
(* Part V - ConnectionManager.  subscribe_to_job, unsubscribe_from_job and *)
(* disconnect never give up the event loop; send_to_job and broadcast give *)
(* it up at every await websocket.send_text, so other calls run between    *)
(* two sends and between the last send and the cleanup.                    *)
(***************************************************************************)
Sockets == 1..NumSockets

WsJobs == {"j1", "j2"}

SendCalls == 1..MaxSends

\* A key of connection_jobs with its set of job ids; no key.
Tracked(jobs) == [known |-> TRUE, jobs |-> jobs]

Untracked == [known |-> FALSE, jobs |-> {}]

\* The two dictionaries.
Manager(ac, cj) == [ac |-> ac, cj |-> cj]

\* subscribe_to_job
subscribe_to_job(m, w, j) ==
    Manager([m.ac EXCEPT ![j] = @ \cup {w}],
            IF m.cj[w].known THEN [m.cj EXCEPT ![w].jobs = @ \cup {j}] ELSE m.cj)

\* unsubscribe_from_job
unsubscribe_from_job(m, w, j) ==
    Manager([m.ac EXCEPT ![j] = @ \ {w}],
            IF m.cj[w].known THEN [m.cj EXCEPT ![w].jobs = @ \ {j}] ELSE m.cj)

\* disconnect: unsubscribe from the jobs connection_jobs lists, delete the key
disconnect(m, w) ==
    IF m.cj[w].known
    THEN Manager([j \in WsJobs |-> IF j \in m.cj[w].jobs THEN m.ac[j] \ {w} ELSE m.ac[j]],
                 [m.cj EXCEPT ![w] = Untracked])
    ELSE m

\* for websocket in disconnected: await self.disconnect(websocket)
RECURSIVE DisconnectEach(_, _)
DisconnectEach(m, ws) ==
    IF ws = {} THEN m
    ELSE LET w == CHOOSE x \in ws : TRUE IN DisconnectEach(disconnect(m, w), ws \ {w})

\* connect: accept, make the key, subscribe when a job id is given
connect(m, w, j) ==
    LET n == Manager(m.ac, IF m.cj[w].known THEN m.cj ELSE [m.cj EXCEPT ![w] = Tracked({})])
    IN  IF j = None THEN n ELSE subscribe_to_job(n, w, j)

Now == Manager(active_connections, connection_jobs)

Becomes(m) == active_connections' = m.ac /\ connection_jobs' = m.cj

\* A call of send_to_job (job a job id) or broadcast (job "all"): the copy of
\* the subscriber set it iterates, the websockets already sent to, the set
\* disconnected; subscribed records who was subscribed when the call began.
SendLocals(pc, job, targets, sent, disconnected, subscribed) ==
    [pc |-> pc, job |-> job, targets |-> targets, sent |-> sent,
     disconnected |-> disconnected, subscribed |-> subscribed]

NotSending == SendLocals("idle", None, {}, {}, {}, {})

\* The call has returned; its locals are gone.
Returned == SendLocals("returned", None, {}, {}, {}, {})

\* message_str of call c, which is for job (or for all)
Message(c, job) == [msg |-> c, job |-> job]

NoMessage == Message(0, None)

\* One more call that changes the subscriptions.
Move == moves < MaxMoves /\ moves' = moves + 1

\* self.active_connections[job_id] for send_to_job, all_connections for broadcast
Subscribers(job) ==
    IF job = "all" THEN UNION {active_connections[j] : j \in WsJobs}
    ELSE active_connections[job]

\* The websockets the loop of a call has still to send to.
LiveTargets(c) == Subscribers(sending[c].job) \ sending[c].sent
Targets(c) == sending[c].targets \ sending[c].sent

\* Calls begin in the order of their numbers.
NextToBegin(c) ==
    /\ sending[c].pc = "idle"
    /\ \A b \in SendCalls : b < c => sending[b].pc # "idle"

ConnectSocket(w, j) ==
    /\ Move
    /\ Becomes(connect(Now, w, j))
    /\ UNCHANGED <<sending, delivered>>
    /\ UNCHANGED offSockets

Subscribe(w, j) ==
    /\ Move
    /\ Becomes(subscribe_to_job(Now, w, j))
    /\ UNCHANGED <<sending, delivered>>
    /\ UNCHANGED offSockets

Unsubscribe(w, j) ==
    /\ Move
    /\ Becomes(unsubscribe_from_job(Now, w, j))
    /\ UNCHANGED <<sending, delivered>>
    /\ UNCHANGED offSockets

DisconnectSocket(w) ==
    /\ Move
    /\ Becomes(disconnect(Now, w))
    /\ UNCHANGED <<sending, delivered>>
    /\ UNCHANGED offSockets

\* The websocket a loop takes next.
FirstOf(ws) == CHOOSE x \in ws : \A y \in ws : x <= y

\* await websocket.send_text(message_str): the message is handed to websocket w,
\* or (ok = FALSE) the call raises and w goes to disconnected; the caller gives
\* up the event loop until the send is over.
SendTextTo(c, loc, w, ok) ==
    /\ sending' = [sending EXCEPT ![c] =
                      [loc EXCEPT !.sent = @ \cup {w},
                                  !.disconnected = IF ok THEN @ ELSE @ \cup {w}]]
    /\ delivered' = IF ok THEN [delivered EXCEPT ![w] = Message(c, loc.job)] ELSE delivered

\* send_to_job / broadcast from the call to its first await: return when nobody
\* is subscribed, else copy the set and send to its first websocket
BeginSend(c, job, ok) ==
    /\ NextToBegin(c)
    /\ IF Subscribers(job) = {}
       THEN sending' = [sending EXCEPT ![c] = Returned] /\ UNCHANGED delivered
       ELSE SendTextTo(c, SendLocals("loop", job, Subscribers(job), {}, {}, Subscribers(job)),
                       FirstOf(Subscribers(job)), ok)
    /\ UNCHANGED <<active_connections, connection_jobs, moves>>
    /\ UNCHANGED offSockets

SendToJob(c, j, ok) == BeginSend(c, j, ok)

Broadcast(c, ok) == BeginSend(c, "all", ok)

\* the send is over, the loop goes on with the next websocket of the copy
SendText(c, ok) ==
    /\ sending[c].pc = "loop"
    /\ Targets(c) # {}
    /\ SendTextTo(c, sending[c], FirstOf(Targets(c)), ok)
    /\ UNCHANGED <<active_connections, connection_jobs, moves>>
    /\ UNCHANGED offSockets

\* the loop is over: disconnect every websocket of disconnected, return
SendReturn(c) ==
    /\ sending[c].pc = "loop"
    /\ Targets(c) = {}
    /\ Becomes(DisconnectEach(Now, sending[c].disconnected))
    /\ sending' = [sending EXCEPT ![c] = Returned]
    /\ UNCHANGED <<delivered, moves>>
    /\ UNCHANGED offSockets

InitSockets ==
    /\ active_connections = [j \in WsJobs |-> {}]
    /\ connection_jobs = [w \in Sockets |-> Untracked]
    /\ sending = [c \in SendCalls |-> NotSending]
    /\ delivered = [w \in Sockets |-> NoMessage]
    /\ moves = 0

\* Every websocket has been through connect(websocket, "j1").
InitSubscribed ==
    /\ active_connections = [j \in WsJobs |-> IF j = "j1" THEN Sockets ELSE {}]
    /\ connection_jobs = [w \in Sockets |-> Tracked({"j1"})]
    /\ sending = [c \in SendCalls |-> NotSending]
    /\ delivered = [w \in Sockets |-> NoMessage]
    /\ moves = 0

NextSockets ==
    \/ \E w \in Sockets, j \in WsJobs \cup {None} : ConnectSocket(w, j)
    \/ \E w \in Sockets, j \in WsJobs : Subscribe(w, j)
    \/ \E w \in Sockets, j \in WsJobs : Unsubscribe(w, j)
    \/ \E w \in Sockets : DisconnectSocket(w)
    \/ \E c \in SendCalls, j \in WsJobs, ok \in BOOLEAN : SendToJob(c, j, ok)
    \/ \E c \in SendCalls, ok \in BOOLEAN : Broadcast(c, ok)
    \/ \E c \in SendCalls, ok \in BOOLEAN : SendText(c, ok)
    \/ \E c \in SendCalls : SendReturn(c)

(***************************************************************************)
(* Part VI - parse_terraform_error.  A text is a list of words, each       *)
(* written in lower case or in capitals; `x in y` is x being a run of      *)
(* consecutive words of y, letters compared as they are.                   *)
(***************************************************************************)
\* str.lower()
lower(text) == [i \in 1..Len(text) |-> [w |-> text[i].w, upper |-> FALSE]]

\* A string literal of the source: its words, in lower case.
Literal(ws) == [i \in 1..Len(ws) |-> [w |-> ws[i], upper |-> FALSE]]

\* literal in text
In(literal, text) ==
    \E i \in 1..(Len(text) - Len(literal) + 1) :
        SubSeq(text, i, i + Len(literal) - 1) = literal

ErrorTypes ==
    {"authentication", "resource_conflict", "resource_not_found", "validation",
     "timeout", "unknown"}

\* error_info; the suggestions are three fixed sentences per type, none for unknown.
ErrorInfo(type, message) ==
    [type |-> type, message |-> message,
     suggestions |-> IF type \in ErrorTypes \ {"unknown"} THEN 3 ELSE 0]

\* parse_terraform_error has not been called.
NoInfo == ErrorInfo(None, <<>>)

\* The elif chain over the text error_lower.
TypeOf(error_lower) ==
    IF \/ In(Literal(<<"authentication">>), error_lower)
       \/ In(Literal(<<"access", "denied">>), error_lower)
    THEN "authentication"
    ELSE IF In(Literal(<<"already", "exists">>), error_lower)
    THEN "resource_conflict"
    ELSE IF In(Literal(<<"not", "found">>), error_lower)
    THEN "resource_not_found"
    ELSE IF \/ In(Literal(<<"invalid">>), error_lower)
            \/ In(Literal(<<"validation">>), error_lower)
    THEN "validation"
    ELSE IF In(Literal(<<"timeout">>), error_lower)
    THEN "timeout"
    ELSE "unknown"

\* The chain applied to the text as it was given.
parse_terraform_error_cased(text) == ErrorInfo(TypeOf(text), text)

parse_terraform_error(text) == ErrorInfo(TypeOf(lower(text)), text)

ParseTerraformError ==
    /\ error_info = NoInfo
    /\ error_info' = parse_terraform_error(error_output)
    /\ UNCHANGED error_output
    /\ UNCHANGED offClassifier

\* No text is being classified.
InitErrors ==
    /\ error_output = <<>>
    /\ error_info = NoInfo

\* A text of at most MaxWords words, the words of the keywords and one more, at
\* most MaxCapitals of them in capitals.
InitErrorTexts ==
    /\ \E ws \in UNION {[1..n -> {"authentication", "access", "denied", "already",
                                   "exists", "not", "found", "invalid", "validation",
                                   "timeout", "error"}] : n \in 0..MaxWords} :
          \E caps \in SUBSET (1..Len(ws)) :
              /\ Cardinality(caps) <= MaxCapitals
              /\ error_output = [i \in 1..Len(ws) |-> [w |-> ws[i], upper |-> i \in caps]]
    /\ error_info = NoInfo

NextClassifier == ParseTerraformError

(***************************************************************************)
(* Part VII - template resolution, the variables file and the workspace.   *)
(* prepare_terraform_workspace (worker.py) and setup_terraform_workspace   *)
(* (jobs.py) do blocking file system calls in one thread, so each          *)
(* preparation is one step.                                                *)
(***************************************************************************)
\* worker: TerraformWorker.prepare_terraform_workspace; api: setup_terraform_workspace
Builders == {"worker", "api"}

TemplateNames == {"sirwan-test", "web-app-simple", "api-simple"}

\* A value of a dictionary: a string (kind "str"), a JSON value that is no string
\* ("json"), a dictionary ("dict") with its items.
Value(kind, s, items) == [kind |-> kind, s |-> s, items |-> items]

\* A dictionary is the list of its <<key, value>> pairs in insertion order.
Keys(dict) == {dict[i][1] : i \in 1..Len(dict)}

Get(dict, key) == dict[CHOOSE i \in 1..Len(dict) : dict[i][1] = key][2]

\* dict.update(other), {**dict, ...other} and dict[key] = value: a key the
\* dictionary has keeps its place and takes the new value, another is appended.
RECURSIVE Update(_, _)
Update(dict, other) ==
    IF other = <<>>
    THEN dict
    ELSE LET key == Head(other)[1]
             set == IF key \in Keys(dict)
                    THEN [i \in 1..Len(dict) |->
                             IF dict[i][1] = key THEN Head(other) ELSE dict[i]]
                    ELSE Append(dict, Head(other))
         IN Update(set, Tail(other))

\* JobRequest(job_id=..., action=..., resource_type=..., name=..., environment=...,
\* region=..., config=..., tags=...)
JobRequest(action, resource_type, environment, config, tags) ==
    [job_id |-> "J", action |-> action, resource_type |-> resource_type,
     name |-> "reports", environment |-> environment, region |-> "us-east-1",
     config |-> config, tags |-> tags]

\* The disk: whether <terraform_dir>/templates exists, what os.listdir gives for
\* it, whether the templates hold a subdirectory, and whether the module
\* directory get_template_path names for the resource type exists.
Disk(root, listing, nested, module) ==
    [root |-> root, listing |-> listing, nested |-> nested, module |-> module]

\* os.path.exists(f"{self.terraform_dir}/templates/{template_name}")
TemplateExists(disk, template_name) ==
    disk.root /\ \E i \in 1..Len(disk.listing) : disk.listing[i] = template_name

template_mapping(resource_type) ==
    CASE resource_type = "web_app" -> "web-app-simple"
      [] resource_type = "api_service" -> "api-simple"
      [] resource_type = "s3" -> "sirwan-test"
      [] resource_type = "ec2" -> "api-simple"
      [] resource_type = "rds" -> "api-simple"
      [] resource_type = "vpc" -> "web-app-simple"
      [] OTHER -> resource_type

\* The Template tag is looked up before the template key of the configuration.
get_template_name_tag_first(request) ==
    IF "Template" \in Keys(request.tags)
    THEN Get(request.tags, "Template").s
    ELSE IF "template" \in Keys(request.config)
    THEN Get(request.config, "template").s
    ELSE template_mapping(request.resource_type)

get_template_name(request) ==
    IF "template" \in Keys(request.config)
    THEN Get(request.config, "template").s
    ELSE IF "Template" \in Keys(request.tags)
    THEN Get(request.tags, "Template").s
    ELSE template_mapping(request.resource_type)

fallback_mapping(resource_type) ==
    CASE resource_type = "s3" -> <<"sirwan-test", "web-app-simple">>
      [] resource_type = "ec2" -> <<"api-simple", "web-app-simple">>
      [] resource_type = "web_app" -> <<"web-app-simple">>
      [] resource_type = "api_service" -> <<"api-simple">>
      [] resource_type = "rds" -> <<"api-simple", "web-app-simple">>
      [] resource_type = "vpc" -> <<"web-app-simple">>
      [] OTHER -> <<>>

\* for fallback in fallbacks: if fallback in available_templates: return fallback
RECURSIVE FirstAvailable(_, _)
FirstAvailable(fallbacks, available_templates) ==
    IF fallbacks = <<>>
    THEN None
    ELSE IF \E i \in 1..Len(available_templates) : available_templates[i] = Head(fallbacks)
    THEN Head(fallbacks)
    ELSE FirstAvailable(Tail(fallbacks), available_templates)

\* find_fallback_template without its last resort.
find_fallback_listed(resource_type, disk) ==
    IF ~disk.root
    THEN None
    ELSE FirstAvailable(fallback_mapping(resource_type), disk.listing)

find_fallback_template(resource_type, disk) ==
    IF ~disk.root
    THEN None
    ELSE LET listed == FirstAvailable(fallback_mapping(resource_type), disk.listing)
         IN IF listed # None
            THEN listed
            ELSE IF disk.listing # <<>> THEN disk.listing[1] ELSE None

\* One line of the variables file.
Line(indent, key, value, quoted) ==
    [indent |-> indent, key |-> key, value |-> value, quoted |-> quoted]

\* Convert to HCL format: for key, value in tfvars.items().  A dictionary is a
\* block of its items; a string is quoted, another value is json.dumps(value).
RECURSIVE RenderLines(_)
RenderLines(tfvars) ==
    IF tfvars = <<>>
    THEN <<>>
    ELSE LET key == Head(tfvars)[1]
             value == Head(tfvars)[2]
         IN (IF value.kind = "dict"
             THEN <<Line(0, key, "{", FALSE)>>
                  \o [i \in 1..Len(value.items) |->
                         Line(1, value.items[i][1], value.items[i][2].s,
                              value.items[i][2].kind = "str")]
                  \o <<Line(0, "}", "", FALSE)>>
             ELSE <<Line(0, key, value.s, value.kind = "str")>>)
            \o RenderLines(Tail(tfvars))

generate_tfvars(request) ==
    LET tags == Update(request.tags,
                       <<<<"ManagedBy", Value("str", "internal-platform", <<>>)>>,
                         <<"JobId", Value("str", request.job_id, <<>>)>>,
                         <<"Environment", Value("str", request.environment, <<>>)>>>>)
        tfvars == <<<<"resource_name", Value("str", request.name, <<>>)>>,
                    <<"environment", Value("str", request.environment, <<>>)>>,
                    <<"region", Value("str", request.region, <<>>)>>,
                    <<"tags", Value("dict", "", tags)>>>>
        typed == IF request.resource_type = "s3"
                 THEN Update(tfvars, <<<<"bucket_name", Value("str", request.name, <<>>)>>>>)
                 ELSE tfvars
    IN RenderLines(Update(typed, request.config))

\* tfvars_content of setup_terraform_workspace: the f-string, line by line
tfvars_content(job_id, request, time) ==
    <<Line(0, "#", "Generated variables for job", FALSE),
      Line(0, "bucket_name", request.name, TRUE),
      Line(0, "environment", request.environment, TRUE),
      Line(0, "region", request.region, TRUE),
      Line(0, "tags", "{", FALSE),
      Line(1, "JobId", job_id, TRUE),
      Line(1, "ManagedBy", "InternalPlatform", TRUE),
      Line(1, "CreatedAt", time, TRUE),
      Line(0, "}", "", FALSE)>>

\* An entry of a directory: a file or a directory ("absent": no entry), the
\* template it was copied from, and its text.
Entry(kind, from, text) == [kind |-> kind, from |-> from, text |-> text]

\* The workspace directory of a job, by the names of its entries.
NoWorkspace ==
    [i \in {"main.tf", "modules", "terraform.tfvars"} |-> Entry("absent", None, <<>>)]

\* os.listdir(template_dir): a template holds main.tf and, when the templates are
\* nested, the directory modules.
Template(disk, from) ==
    [i \in (IF disk.nested THEN {"main.tf", "modules"} ELSE {"main.tf"}) |->
        IF i = "modules" THEN Entry("dir", from, <<>>) ELSE Entry("file", from, <<>>)]

\* shutil.copytree(s, d, dirs_exist_ok=True) and shutil.copy2(s, d) for every item
CopyMerging(ws, template) ==
    [i \in DOMAIN ws |-> IF i \in DOMAIN template THEN template[i] ELSE ws[i]]

\* What one preparation did: how it ended, the template it copied, whether that
\* was the primary, a fallback or a generated configuration, the log entries it
\* added, the variables text it rendered and the workspace it left.
Outcome(result, template, source, logs, tfvars, ws) ==
    [result |-> result, template |-> template, source |-> source, logs |-> logs,
     tfvars |-> tfvars, items |-> ws]

\* The branch `No suitable template found` needs a fallback that left the disk
\* between os.listdir and os.path.exists; the disk does not change here.
prepare_terraform_workspace(request, disk, ws) ==
    LET template_name == get_template_name(request)
        fallback_template == find_fallback_template(request.resource_type, disk)
        text == generate_tfvars(request)
        Built(from) ==
            [CopyMerging(ws, Template(disk, from)) EXCEPT
                !["terraform.tfvars"] = Entry("file", "generated", text)]
    IN IF TemplateExists(disk, template_name)
       THEN [workspace |-> Built(template_name),
             outcome |-> Outcome("returned", template_name, "primary",
                                 <<[level |-> "INFO", message |-> "Using template"],
                                   [level |-> "INFO", message |-> "Workspace prepared"]>>,
                                 text, Built(template_name))]
       ELSE IF fallback_template # None
       THEN [workspace |-> Built(fallback_template),
             outcome |-> Outcome("returned", fallback_template, "fallback",
                                 <<[level |-> "WARNING", message |-> "Using fallback template"],
                                   [level |-> "INFO", message |-> "Workspace prepared"]>>,
                                 text, Built(fallback_template))]
       ELSE [workspace |-> ws,
             outcome |-> Outcome("raised", None, "none",
                                 <<[level |-> "ERROR",
                                    message |-> "Failed to prepare workspace"]>>,
                                 <<>>, ws)]

\* get_template_path: the module directory of the resource type, "" for a type
\* the map does not have.
get_template_path(resource_type) ==
    IF resource_type \in {"s3", "ec2", "rds", "cloudfront", "sirwan-test"}
    THEN resource_type
    ELSE ""

\* create_basic_terraform_config writes main.tf for s3 and nothing for another type
create_basic_terraform_config(ws, request) ==
    IF request.resource_type = "s3"
    THEN [ws EXCEPT !["main.tf"] = Entry("file", "generated", <<>>)]
    ELSE ws

\* setup_terraform_workspace.  shutil.copytree(source_path, dest_path) raises
\* FileExistsError when dest_path exists; the files os.listdir gave before that
\* directory are copied by then, and a file copied again has the text it had.
setup_terraform_workspace(job_id, ws, template_source, request, disk, time) ==
    LET text == tfvars_content(job_id, request, time)
        template == Template(disk, template_source)
        Written(w) == [w EXCEPT !["terraform.tfvars"] = Entry("file", "generated", text)]
        files == {i \in DOMAIN template : template[i].kind = "file"}
    IN IF template_source # "" /\ disk.module
       THEN IF \E i \in DOMAIN template : template[i].kind = "dir" /\ ws[i].kind # "absent"
            THEN LET left == [i \in DOMAIN ws |->
                                 IF i \in files THEN template[i] ELSE ws[i]]
                 IN [workspace |-> left,
                     outcome |-> Outcome("raised", template_source, "primary", <<>>,
                                         <<>>, left)]
            ELSE [workspace |-> Written(CopyMerging(ws, template)),
                  outcome |-> Outcome("returned", template_source, "primary", <<>>, text,
                                      Written(CopyMerging(ws, template)))]
       ELSE [workspace |-> Written(create_basic_terraform_config(ws, request)),
             outcome |-> Outcome("returned", None, "generated", <<>>, text,
                                 Written(create_basic_terraform_config(ws, request)))]

\* The worker prepares the workspace of the job (again, when the job is run again).
PrepareTerraformWorkspace ==
    /\ Len(prepared["worker"]) < MaxPrepares
    /\ LET r == prepare_terraform_workspace(job_request, templates, workspace["worker"])
       IN /\ workspace' = [workspace EXCEPT !["worker"] = r.workspace]
          /\ prepared' = [prepared EXCEPT !["worker"] = Append(@, r.outcome)]
    /\ UNCHANGED <<job_request, templates, utcnow>>
    /\ UNCHANGED offWorkspace

\* The jobs API sets the workspace of the job up (again).
SetupTerraformWorkspace ==
    /\ Len(prepared["api"]) < MaxPrepares
    /\ LET r == setup_terraform_workspace(job_request.job_id, workspace["api"],
                       get_template_path(job_request.resource_type), job_request,
                       templates, utcnow)
       IN /\ workspace' = [workspace EXCEPT !["api"] = r.workspace]
          /\ prepared' = [prepared EXCEPT !["api"] = Append(@, r.outcome)]
    /\ UNCHANGED <<job_request, templates, utcnow>>
    /\ UNCHANGED offWorkspace

\* Time passes.
UtcTick ==
    /\ utcnow < MaxTime
    /\ utcnow' = utcnow + 1
    /\ UNCHANGED <<job_request, templates, workspace, prepared>>
    /\ UNCHANGED offWorkspace

\* The keys a configuration and a tags dictionary can have, with their values.
AllConfig ==
    <<<<"template", Value("str", "api-simple", <<>>)>>,
      <<"resource_name", Value("str", "other-name", <<>>)>>,
      <<"environment", Value("str", "other-environment", <<>>)>>,
      <<"region", Value("str", "other-region", <<>>)>>,
      <<"tags", Value("dict", "", <<<<"Team", Value("str", "ops", <<>>)>>>>)>>,
      <<"versioning", Value("json", "true", <<>>)>>>>

AllTags ==
    <<<<"Template", Value("str", "web-app-simple", <<>>)>>,
      <<"Owner", Value("str", "alice", <<>>)>>,
      <<"ManagedBy", Value("str", "someone", <<>>)>>,
      <<"JobId", Value("str", "other-job", <<>>)>>>>

\* No job is being prepared.
InitWorkspace ==
    /\ job_request = JobRequest("create", "s3", "dev", <<>>, <<>>)
    /\ templates = Disk(FALSE, <<>>, FALSE, FALSE)
    /\ workspace = [b \in Builders |-> NoWorkspace]
    /\ prepared = [b \in Builders |-> <<>>]
    /\ utcnow = 0

\* Any resource type of the mapping and one it does not have, any template named
\* in the configuration or the tags, and any list os.listdir can give: the
\* template directories present, in any order.
InitTemplates ==
    /\ \E rt \in {"web_app", "api_service", "s3", "ec2", "rds", "vpc", "data_pipeline"},
          ct \in TemplateNames \cup {None}, tt \in TemplateNames \cup {None} :
          job_request =
              JobRequest("create", rt, "dev",
                         IF ct = None THEN <<>>
                         ELSE <<<<"template", Value("str", ct, <<>>)>>>>,
                         IF tt = None THEN <<>>
                         ELSE <<<<"Template", Value("str", tt, <<>>)>>>>)
    /\ \E root \in BOOLEAN, nested \in BOOLEAN, module \in BOOLEAN :
          \E l \in UNION {[1..n -> TemplateNames] : n \in 0..Cardinality(TemplateNames)} :
              /\ \A i, j \in 1..Len(l) : i # j => l[i] # l[j]
              /\ ~root => l = <<>>
              /\ templates = Disk(root, l, nested, module)
    /\ workspace = [b \in Builders |-> NoWorkspace]
    /\ prepared = [b \in Builders |-> <<>>]
    /\ utcnow = 0

\* Any configuration keys and tags, two templates on disk.
InitRequests ==
    /\ \E a \in {"create", "destroy"}, rt \in {"s3", "ec2"}, env \in {"dev", "prod"},
          ck \in SUBSET Keys(AllConfig), tk \in SUBSET Keys(AllTags) :
          job_request = JobRequest(a, rt, env,
                                   SelectSeq(AllConfig, LAMBDA p : p[1] \in ck),
                                   SelectSeq(AllTags, LAMBDA p : p[1] \in tk))
    /\ templates = Disk(TRUE, <<"sirwan-test", "api-simple">>, FALSE, TRUE)
    /\ workspace = [b \in Builders |-> NoWorkspace]
    /\ prepared = [b \in Builders |-> <<>>]
    /\ utcnow = 0

NextWorkspace ==
    \/ PrepareTerraformWorkspace
    \/ SetupTerraformWorkspace
    \/ UtcTick

(***************************************************************************)
(* Part VIII - create_deployment_job and its background task               *)
(* process_deployment_job / process_real_terraform_deployment.  One task   *)
(* per job; it gives up the event loop while a command runs, so a step is  *)
(* one command with what the task does until the next command starts.      *)
(***************************************************************************)
\* JobLog(level=..., message=..., step=...); level is None where the call passes none
DeployLog(level, step) == [level |-> level, step |-> step]

\* The command lines given to run_terraform_command, word by word.
DeployCommand(step) ==
    CASE step = "validation" -> <<"aws", "sts", "get-caller-identity">>
      [] step = "terraform_init" -> <<"terraform", "init">>
      [] step = "terraform_plan" -> <<"terraform", "plan", "-out=tfplan">>
      [] step = "terraform_apply" -> <<"terraform", "apply", "-auto-approve", "tfplan">>
      [] step = "terraform_output" -> <<"terraform", "output", "-json">>

\* The step that follows in process_real_terraform_deployment.
NextStep(step) ==
    CASE step = "validation" -> "terraform_setup"
      [] step = "terraform_setup" -> "terraform_init"
      [] step = "terraform_init" -> "terraform_plan"
      [] step = "terraform_plan" -> "terraform_apply"
      [] step = "terraform_apply" -> "terraform_output"
      [] step = "terraform_output" -> "done"

\* job_storage[job_id], the step the task is at and the commands it has run.
Deployment(pc, status, error, output, logs, invoked) ==
    [pc |-> pc, status |-> status, error_message |-> error, terraform_output |-> output,
     logs |-> logs, invoked |-> invoked]

\* run_terraform_command: the entries it adds for stdout and stderr
CommandLogs(step, success, stdout, stderr) ==
    (IF stdout THEN <<DeployLog(None, step)>> ELSE <<>>)
    \o (IF stderr THEN <<DeployLog(IF success THEN "WARN" ELSE "ERROR", step)>> ELSE <<>>)

\* except Exception as e, in process_deployment_job
Failed(dep, error, logs) ==
    [dep EXCEPT !.pc = "done", !.status = "FAILED", !.error_message = error,
                !.logs = @ \o logs \o <<DeployLog("ERROR", "error")>>]

\* create_deployment_job: the entry of job_storage, and the task is scheduled
CreateDeploymentJob ==
    /\ deploy.pc = "none"
    /\ deploy' = Deployment("queued", "QUEUED", None, None,
                            <<DeployLog("INFO", "initialization")>>, <<>>)
    /\ UNCHANGED pvars
    /\ UNCHANGED offDeployment

\* process_deployment_job and process_real_terraform_deployment up to the first
\* command: RUNNING, the workspace directory, the Validation progress entry.
ProcessDeploymentJob ==
    /\ deploy.pc = "queued"
    /\ deploy' = [deploy EXCEPT !.pc = "validation", !.status = "RUNNING",
                                !.logs = @ \o <<DeployLog("INFO", "deployment_start"),
                                                DeployLog(None, "validation")>>]
    /\ UNCHANGED pvars
    /\ UNCHANGED offDeployment

\* A command of the steps validation, init, plan and apply has run.
DeploymentCommand(success, stdout, stderr) ==
    /\ deploy.pc \in {"validation", "terraform_init", "terraform_plan", "terraform_apply"}
    /\ LET step == deploy.pc
           ran == [deploy EXCEPT !.invoked = Append(@, DeployCommand(step))]
           logs == CommandLogs(step, success, stdout, stderr)
       IN deploy' =
              IF ~success
              THEN Failed(ran, step, logs)
              ELSE [ran EXCEPT
                      !.pc = NextStep(step),
                      !.logs = @ \o logs
                                 \o (IF step = "terraform_apply"
                                     THEN <<>>
                                     ELSE <<DeployLog(None, step),
                                            DeployLog(None, NextStep(step))>>)]
    /\ UNCHANGED pvars
    /\ UNCHANGED offDeployment

\* get_template_path and setup_terraform_workspace, then the Terraform Init
\* progress entry.
DeploymentSetup ==
    /\ deploy.pc = "terraform_setup"
    /\ LET r == setup_terraform_workspace(job_request.job_id, workspace["api"],
                       get_template_path(job_request.resource_type), job_request,
                       templates, utcnow)
       IN /\ workspace' = [workspace EXCEPT !["api"] = r.workspace]
          /\ prepared' = [prepared EXCEPT !["api"] = Append(@, r.outcome)]
          /\ deploy' =
                 IF r.outcome.result = "raised"
                 THEN Failed(deploy, "terraform_setup", <<>>)
                 ELSE [deploy EXCEPT
                         !.pc = "terraform_init",
                         !.logs = @ \o <<DeployLog(None, "terraform_setup"),
                                         DeployLog(None, "terraform_init")>>]
    /\ UNCHANGED <<job_request, templates, utcnow>>
    /\ UNCHANGED offDeployment

\* terraform output -json has run: json.loads(stdout) when it exited 0, then
\* COMPLETED.  json.loads raises on text that is not JSON.
DeploymentOutput(success, stdout, stderr, json) ==
    /\ deploy.pc = "terraform_output"
    /\ json => stdout
    /\ LET step == deploy.pc
           ran == [deploy EXCEPT !.invoked = Append(@, DeployCommand(step))]
           logs == CommandLogs(step, success, stdout, stderr)
       IN deploy' =
              IF success /\ ~json
              THEN Failed(ran, step, logs)
              ELSE [ran EXCEPT
                      !.pc = "done",
                      !.status = "COMPLETED",
                      !.terraform_output = IF success THEN "outputs" ELSE @,
                      !.logs = @ \o logs \o <<DeployLog(None, "terraform_apply")>>]
    /\ UNCHANGED pvars
    /\ UNCHANGED offDeployment

\* No deployment job.
InitDeployment == deploy = Deployment("none", None, None, None, <<>>, <<>>)

\* A request of the jobs API, and what the disk holds for it.
InitApiRequests ==
    /\ \E a \in {"create", "destroy"}, rt \in {"s3", "ec2", "web_app"} :
          job_request = JobRequest(a, rt, "dev", <<>>, <<>>)
    /\ \E nested \in BOOLEAN, module \in BOOLEAN :
          templates = Disk(FALSE, <<>>, nested, module)
    /\ workspace = [b \in Builders |-> NoWorkspace]
    /\ prepared = [b \in Builders |-> <<>>]
    /\ utcnow = 0

NextDeployment ==
    \/ CreateDeploymentJob
    \/ ProcessDeploymentJob
    \/ \E success \in BOOLEAN, stdout \in BOOLEAN, stderr \in BOOLEAN :
           DeploymentCommand(success, stdout, stderr)
    \/ DeploymentSetup
    \/ \E success \in BOOLEAN, stdout \in BOOLEAN, stderr \in BOOLEAN, json \in BOOLEAN :
           DeploymentOutput(success, stdout, stderr, json)

(***************************************************************************)
(* Part IX - JobManager.create_job, update_job_status and add_job_log as   *)
(* one caller sees them: each call runs from get_job to _save_job with no  *)
(* other call in between.  Times are 1, 2, ...; 0 is a null time.          *)
(***************************************************************************)
\* "started_at": None, "completed_at": None
NullTime == 0

\* No file <job_id>.json: get_job returns None.
NoStoredJob ==
    [job_id |-> None, status |-> None, created_at |-> NullTime, updated_at |-> NullTime,
     started_at |-> NullTime, completed_at |-> NullTime, logs |-> <<>>,
     error_message |-> None, terraform_output |-> None, metadata |-> None]

\* create_job: the record is built from the arguments alone and saved over
\* whatever file the job id has.
create_job(job_id, job_data, time) ==
    [job_id |-> job_id, status |-> "pending", created_at |-> time, updated_at |-> time,
     started_at |-> NullTime, completed_at |-> NullTime, logs |-> <<>>,
     error_message |-> None, terraform_output |-> None, metadata |-> job_data]

\* update_job_status, from the record get_job returned to the record saved
update_job_status(job_record, status, error_message, terraform_output, time) ==
    [job_record EXCEPT
        !.status = status,
        !.updated_at = time,
        !.started_at = IF status = "running" /\ @ = NullTime THEN time ELSE @,
        !.completed_at = IF status \in Terminal THEN time ELSE @,
        !.error_message = IF error_message # None THEN error_message ELSE @,
        !.terraform_output = IF terraform_output # None THEN terraform_output ELSE @]

\* add_job_log, from the record get_job returned to the record saved
add_job_log(job_record, message, level, time) ==
    [job_record EXCEPT
        !.logs = KeepLast(Append(@, [timestamp |-> time, level |-> level,
                                     message |-> message])),
        !.updated_at = time]

\* A call: its name, the status it was given, the record it found, what it
\* returned ("job_record", "None") or raised ("ValueError").
ManagerCall(op, status, found, returned) ==
    [op |-> op, status |-> status, found |-> found, returned |-> returned]

\* create_job(job_id, job_data)
ManagerCreateJob(job_data) ==
    /\ mcalls < MaxManagerCalls
    /\ mcalls' = mcalls + 1
    /\ stored' = create_job("J", job_data, mtime)
    /\ created' = IF created = NoStoredJob THEN stored' ELSE created
    /\ last_call' = ManagerCall("create_job", None, stored, "job_record")
    /\ UNCHANGED mtime
    /\ UNCHANGED offManager

\* update_job_status(job_id, status, error_message, terraform_output)
ManagerUpdateJobStatus(status, error_message, terraform_output) ==
    /\ mcalls < MaxManagerCalls
    /\ mcalls' = mcalls + 1
    /\ IF stored = NoStoredJob
       THEN /\ last_call' = ManagerCall("update_job_status", status, stored, "ValueError")
            /\ UNCHANGED stored
       ELSE /\ stored' = update_job_status(stored, status, error_message, terraform_output,
                                          mtime)
            /\ last_call' = ManagerCall("update_job_status", status, stored, "job_record")
    /\ UNCHANGED <<created, mtime>>
    /\ UNCHANGED offManager

\* add_job_log(job_id, message, level)
ManagerAddJobLog(message, level) ==
    /\ mcalls < MaxManagerCalls
    /\ mcalls' = mcalls + 1
    /\ IF stored = NoStoredJob
       THEN /\ last_call' = ManagerCall("add_job_log", None, stored, "ValueError")
            /\ UNCHANGED stored
       ELSE /\ stored' = add_job_log(stored, message, level, mtime)
            /\ last_call' = ManagerCall("add_job_log", None, stored, "None")
    /\ UNCHANGED <<created, mtime>>
    /\ UNCHANGED offManager

\* datetime.utcnow() moves on between two calls
ManagerTick ==
    /\ mtime < MaxManagerTime
    /\ mtime' = mtime + 1
    /\ UNCHANGED <<stored, created, last_call, mcalls>>
    /\ UNCHANGED offManager

\* job_manager = JobManager(): no record, no call yet
InitManager ==
    /\ stored = NoStoredJob
    /\ created = NoStoredJob
    /\ last_call = ManagerCall(None, None, NoStoredJob, None)
    /\ mtime = 1
    /\ mcalls = 0

NextManager ==
    \/ \E job_data \in {"create", "destroy"} : ManagerCreateJob(job_data)
    \/ \E status \in JobStatus, error_message \in {None, "error"},
          terraform_output \in {None, "outputs"} :
           ManagerUpdateJobStatus(status, error_message, terraform_output)
    \/ \E level \in {"INFO", "ERROR"} : ManagerAddJobLog("message", level)
    \/ ManagerTick

(***************************************************************************)
(* Part X - RedisConnectionManager().  __new__ and __init__ take no lock,  *)
(* and the interpreter may switch threads between the test of an attribute *)
(* and the assignment that follows it: each test and each assignment is a  *)
(* step.  Objects and pools are numbered in the order they are made.       *)
(***************************************************************************)
Threads == 1..NumThreads

\* _instance = None, _connection_pool = None, _rq_connection_pool = None
NoObject == 0

\* A new object: it has no attribute of its own, so both names read the class's None.
NewObject == [connection_pool |-> NoObject, rq_connection_pool |-> NoObject]

\* The locals of a thread inside RedisConnectionManager(); left counts the
\* constructions it may still begin.
Construction(pc, self, left) == [pc |-> pc, self |-> self, left |-> left]

\* __new__: if cls._instance is None
NewTest(t) ==
    /\ thread[t].pc = "idle"
    /\ thread[t].left > 0
    /\ thread' = [thread EXCEPT ![t] =
                     Construction(IF instance = NoObject THEN "new_create" ELSE "new_return",
                                  NoObject, @.left - 1)]
    /\ UNCHANGED <<instance, objects, pools, yielded>>
    /\ UNCHANGED offSingleton

\* __new__: cls._instance = super().__new__(cls)
NewCreate(t) ==
    /\ thread[t].pc = "new_create"
    /\ objects' = Append(objects, NewObject)
    /\ instance' = Len(objects) + 1
    /\ thread' = [thread EXCEPT ![t].pc = "new_return"]
    /\ UNCHANGED <<pools, yielded>>
    /\ UNCHANGED offSingleton

\* __new__: return cls._instance; __init__(self): if self._connection_pool is None
InitTest(t) ==
    /\ thread[t].pc = "new_return"
    /\ thread' = [thread EXCEPT ![t] =
                     Construction(IF objects[instance].connection_pool = NoObject
                                  THEN "init_pool" ELSE "constructed",
                                  instance, @.left)]
    /\ yielded' = IF objects[instance].connection_pool = NoObject THEN yielded
                  ELSE yielded \cup {instance}
    /\ UNCHANGED <<instance, objects, pools>>
    /\ UNCHANGED offSingleton

\* __init__: self._connection_pool = ConnectionPool(..., decode_responses=True, ...)
InitPool(t) ==
    /\ thread[t].pc = "init_pool"
    /\ pools' = Append(pools, "general")
    /\ objects' = [objects EXCEPT ![thread[t].self].connection_pool = Len(pools) + 1]
    /\ thread' = [thread EXCEPT ![t].pc = "init_rq_pool"]
    /\ UNCHANGED <<instance, yielded>>
    /\ UNCHANGED offSingleton

\* __init__: self._rq_connection_pool = ConnectionPool(..., decode_responses=False, ...);
\* __init__ returns and RedisConnectionManager() yields self
InitRqPool(t) ==
    /\ thread[t].pc = "init_rq_pool"
    /\ pools' = Append(pools, "rq")
    /\ objects' = [objects EXCEPT ![thread[t].self].rq_connection_pool = Len(pools) + 1]
    /\ thread' = [thread EXCEPT ![t].pc = "constructed"]
    /\ yielded' = yielded \cup {thread[t].self}
    /\ UNCHANGED instance
    /\ UNCHANGED offSingleton

\* The thread goes on and may call RedisConnectionManager() again.
ConstructAgain(t) ==
    /\ thread[t].pc = "constructed"
    /\ thread' = [thread EXCEPT ![t].pc = "idle"]
    /\ UNCHANGED <<instance, objects, pools, yielded>>
    /\ UNCHANGED offSingleton

\* The class as defined: no instance, no pool; no thread has called it.
InitSingleton ==
    /\ instance = NoObject
    /\ objects = <<>>
    /\ pools = <<>>
    /\ thread = [t \in Threads |-> Construction("idle", NoObject, MaxConstructions)]
    /\ yielded = {}

NextSingleton ==
    \/ \E t \in Threads : NewTest(t)
    \/ \E t \in Threads : NewCreate(t)
    \/ \E t \in Threads : InitTest(t)
    \/ \E t \in Threads : InitPool(t)
    \/ \E t \in Threads : InitRqPool(t)
    \/ \E t \in Threads : ConstructAgain(t)

(***************************************************************************)
(* Specifications of Part I.                                               *)
(***************************************************************************)
NoFiles == [r \in Requests |-> NoFile]

NoRequests == [r \in Requests |-> NoRequest]

InitQueue ==
    /\ storage = NoRequests
    /\ pending = NoFiles
    /\ processing = NoFiles
    /\ now = 0
    /\ dq = [w \in Workers |-> IdleCall]
    /\ retCount = [r \in Requests |-> 0]
    /\ decided = [r \in Requests |-> FALSE]
    /\ submitErr = [r \in Requests |-> FALSE]

\* The external process that polls the queue of the service.
Pollers == {1}

NextQueue ==
    \/ \E id \in Requests, saveOk \in BOOLEAN, enqOk \in BOOLEAN :
           SubmitRequest(id, saveOk, enqOk)
    \/ \E id \in Requests, a \in Approvers, saveOk \in BOOLEAN, enqOk \in BOOLEAN :
           ApproveRequest(id, a, saveOk, enqOk)
    \/ \E id \in Requests, a \in Approvers, rsn \in Reasons, saveOk \in BOOLEAN :
           RejectRequest(id, a, rsn, saveOk)
    \/ \E w \in Pollers : DequeueList(w)
    \/ \E w \in Pollers : DequeueStat(w)
    \/ \E w \in Pollers : DequeueRead(w)
    \/ \E w \in Pollers : DequeueRename(w)
    \/ \E w \in Pollers : DequeueAgain(w)
    \/ Tick

InitQueueService == InitQueue /\ InitJobs /\ InitApproval /\ InitLog /\ InitSockets /\ InitErrors /\ InitWorkspace /\ InitDeployment /\ InitManager /\ InitSingleton

SpecQueue == InitQueueService /\ [][NextQueue]_vars

\* Concurrent dequeue() calls, one per worker, on a queue that holds pending requests.
InitDequeue ==
    /\ \E S \in (SUBSET Requests) \ {{}} : \E ct \in [S -> Clock] :
          /\ pending = [r \in Requests |->
                          IF r \in S THEN QueueFile(NewRequest(r), ct[r]) ELSE NoFile]
          /\ storage = [r \in Requests |-> IF r \in S THEN NewRequest(r) ELSE NoRequest]
    /\ processing = NoFiles
    /\ now = MaxClock
    /\ dq = [w \in Workers |-> IdleCall]
    /\ retCount = [r \in Requests |-> 0]
    /\ decided = [r \in Requests |-> FALSE]
    /\ submitErr = [r \in Requests |-> FALSE]

NextDequeue ==
    \/ \E w \in Workers : DequeueList(w)
    \/ \E w \in Workers : DequeueStat(w)
    \/ \E w \in Workers : DequeueRead(w)
    \/ \E w \in Workers : DequeueRename(w)

InitDequeuers == InitDequeue /\ InitJobs /\ InitApproval /\ InitLog /\ InitSockets /\ InitErrors /\ InitWorkspace /\ InitDeployment /\ InitManager /\ InitSingleton

SpecDequeue == InitDequeuers /\ [][NextDequeue]_vars

\* Two workers call dequeue() again and again on a pending directory that holds
\* requests and, possibly, files that are not readable as requests.
Consumers == {1, 2}

InitPending ==
    /\ \E S \in (SUBSET Requests) \ {{}} : \E ct \in [S -> Clock] : \E bad \in SUBSET S :
          /\ pending = [r \in Requests |->
                          IF r \in bad THEN QueueFile(Unparsable, ct[r])
                          ELSE IF r \in S THEN QueueFile(NewRequest(r), ct[r])
                          ELSE NoFile]
          /\ storage = [r \in Requests |->
                          IF r \in S \ bad THEN NewRequest(r) ELSE NoRequest]
    /\ processing = NoFiles
    /\ now = MaxClock
    /\ dq = [w \in Workers |-> IdleCall]
    /\ retCount = [r \in Requests |-> 0]
    /\ decided = [r \in Requests |-> FALSE]
    /\ submitErr = [r \in Requests |-> FALSE]

NextPending ==
    \/ \E w \in Consumers : DequeueList(w)
    \/ \E w \in Consumers : DequeueStat(w)
    \/ \E w \in Consumers : DequeueRead(w)
    \/ \E w \in Consumers : DequeueRename(w)
    \/ \E w \in Consumers : DequeueAgain(w)

InitPendingQueue == InitPending /\ InitJobs /\ InitApproval /\ InitLog /\ InitSockets /\ InitErrors /\ InitWorkspace /\ InitDeployment /\ InitManager /\ InitSingleton

SpecPending == InitPendingQueue /\ [][NextPending]_vars

\* The same, with the workers never stopping to call.
FairPending == SpecPending /\ WF_vars(NextPending)

\* One job: the submitter, the RQ queue and the worker; no I/O error.
InitJobService == InitQueue /\ InitJobs /\ InitApproval /\ InitLog /\ InitSockets /\ InitErrors /\ InitWorkspace /\ InitDeployment /\ InitManager /\ InitSingleton

SpecJobs == InitJobService /\ [][NextJobs]_vars

\* The same, with I/O errors on the record file, terraform.tfvars and Popen.
InitJobServiceFaults == InitQueue /\ InitJobFaults /\ InitApproval /\ InitLog /\ InitSockets /\ InitErrors /\ InitWorkspace /\ InitDeployment /\ InitManager /\ InitSingleton

SpecJobFaults == InitJobServiceFaults /\ [][NextJobFaults]_vars

(***************************************************************************)
(* Specification of Part III: concurrent calls of the endpoint for one     *)
(* pending deployment request.                                             *)
(***************************************************************************)
InitApprovalEndpoint == InitQueue /\ InitJobs /\ InitApproval /\ InitLog /\ InitSockets /\ InitErrors /\ InitWorkspace /\ InitDeployment /\ InitManager /\ InitSingleton

SpecApproval == InitApprovalEndpoint /\ [][NextApproval]_vars

(***************************************************************************)
(* Specifications of Part IV: one caller of add_job_log past the 1000      *)
(* bound, and several callers at once with a clock that moves.             *)
(***************************************************************************)
InitLogWriters == InitQueue /\ InitJobs /\ InitApproval /\ InitLog /\ InitSockets /\ InitErrors /\ InitWorkspace /\ InitDeployment /\ InitManager /\ InitSingleton

SpecSingleWriter == InitLogWriters /\ [][NextSingleWriter]_vars

SpecLogWriters == InitLogWriters /\ [][NextLogWriters]_vars

(***************************************************************************)
(* Specification of Part V: websockets connecting, subscribing and leaving *)
(* while send_to_job and broadcast calls run.                              *)
(***************************************************************************)
InitConnectionManager == InitQueue /\ InitJobs /\ InitApproval /\ InitLog /\ InitSockets /\ InitErrors /\ InitWorkspace /\ InitDeployment /\ InitManager /\ InitSingleton

SpecSockets == InitConnectionManager /\ [][NextSockets]_vars

\* The same calls, begun when every websocket is subscribed to one job.
InitSubscribers == InitQueue /\ InitJobs /\ InitApproval /\ InitLog /\ InitSubscribed /\ InitErrors /\ InitWorkspace /\ InitDeployment /\ InitManager /\ InitSingleton

SpecSubscribers == InitSubscribers /\ [][NextSockets]_vars

(***************************************************************************)
(* Specification of Part VI: parse_terraform_error applied to every text   *)
(* of the bounded set.                                                     *)
(***************************************************************************)
InitClassifier == InitQueue /\ InitJobs /\ InitApproval /\ InitLog /\ InitSockets /\ InitErrorTexts /\ InitWorkspace /\ InitDeployment /\ InitManager /\ InitSingleton

SpecClassifier == InitClassifier /\ [][NextClassifier]_vars

(***************************************************************************)
(* Specifications of Part VII: the workspace prepared, and prepared again,  *)
(* over the templates a disk can hold, and over the requests.              *)
(***************************************************************************)
InitWorkspaces == InitQueue /\ InitJobs /\ InitApproval /\ InitLog /\ InitSockets /\ InitErrors /\ InitTemplates /\ InitDeployment /\ InitManager /\ InitSingleton

SpecWorkspace == InitWorkspaces /\ [][NextWorkspace]_vars

InitVariables == InitQueue /\ InitJobs /\ InitApproval /\ InitLog /\ InitSockets /\ InitErrors /\ InitRequests /\ InitDeployment /\ InitManager /\ InitSingleton

SpecVariables == InitVariables /\ [][NextWorkspace]_vars

(***************************************************************************)
(* Specification of Part VIII: one deployment job of the jobs API.         *)
(***************************************************************************)
InitDeployments == InitQueue /\ InitJobs /\ InitApproval /\ InitLog /\ InitSockets /\ InitErrors /\ InitApiRequests /\ InitDeployment /\ InitManager /\ InitSingleton

SpecDeployment == InitDeployments /\ [][NextDeployment]_vars

(***************************************************************************)
(* Specification of Part IX: any sequence of JobManager calls for one job  *)
(* id.                                                                     *)
(***************************************************************************)
InitJobManager == InitQueue /\ InitJobs /\ InitApproval /\ InitLog /\ InitSockets /\ InitErrors /\ InitWorkspace /\ InitDeployment /\ InitManager /\ InitSingleton

SpecManager == InitJobManager /\ [][NextManager]_vars

(***************************************************************************)
(* Specification of Part X: the threads of one process construct          *)
(* RedisConnectionManager, each several times.                             *)
(***************************************************************************)
InitSingletonUse == InitQueue /\ InitJobs /\ InitApproval /\ InitLog /\ InitSockets /\ InitErrors /\ InitWorkspace /\ InitDeployment /\ InitManager /\ InitSingleton

SpecSingleton == InitSingletonUse /\ [][NextSingleton]_vars

(***************************************************************************)
(* Claims of Part I.                                                       *)
(***************************************************************************)
QueuedRequests == PendingFiles(pending) \cup PendingFiles(processing)

AllReturned == \A w \in Workers : dq[w].pc = "done"

\* C1: concurrent dequeue() calls return no request twice, and on a queue that
\* holds one pending request exactly one of the calls returns it, the others None.
C1_ExactlyOneClaim ==
    /\ \A r \in Requests : retCount[r] <= 1
    /\ \A r \in Requests :
          (QueuedRequests = {r} /\ AllReturned) =>
              /\ Cardinality({w \in Workers : dq[w].ret = r}) = 1
              /\ \A w \in Workers : dq[w].ret \in {r, None}

\* C1 witness: one request; a worker has returned it while another worker, which
\* had listed and read the same file, is about to rename it.
C1_Witness ==
    \E r \in Requests : \E w1, w2 \in Workers :
        /\ QueuedRequests = {r}
        /\ dq[w1].pc = "done" /\ dq[w1].ret = r
        /\ dq[w2].pc = "read" /\ dq[w2].oldest = r

\* C8: over any sequence of submit_request, approve_request, reject_request and
\* dequeue calls, dequeue returns each request id at most once.
C8_ReturnedAtMostOnce == \A r \in Requests : retCount[r] < 2

\* The decision a stored request carries.
Decision(req) == <<req.status, req.approver, req.rejection_reason>>

\* A step of approve_request or reject_request for request id.
DecisionCall(id) ==
    \/ \E a \in Approvers, saveOk \in BOOLEAN, enqOk \in BOOLEAN :
           ApproveRequest(id, a, saveOk, enqOk)
    \/ \E a \in Approvers, rsn \in Reasons, saveOk \in BOOLEAN :
           RejectRequest(id, a, rsn, saveOk)

\* C9: once approve_request or reject_request has succeeded for a request id, a
\* later approve_request or reject_request for that id leaves the stored status,
\* approver and rejection_reason and the queue unchanged.
C9_AtMostOneDecision ==
    [][\A id \in Requests :
          (decided[id] /\ DecisionCall(id)) =>
              /\ Decision(storage'[id]) = Decision(storage[id])
              /\ pending' = pending
              /\ processing' = processing]_vars

\* C10: while a stored request is still pending approval it is not in the
\* pending namespace of the queue and dequeue has not returned it.
C10_QueuedOnlyAfterApproval ==
    \A r \in Requests :
        (storage[r].status = "pending" /\ storage[r].approver = None /\ ~decided[r]) =>
            (pending[r] = NoFile /\ retCount[r] = 0)

\* C11: a request whose stored status is rejected was never returned by
\* dequeue and does not wait in the pending namespace to be returned.
C11_RejectedNeverDequeued ==
    \A r \in Requests :
        storage[r].status = "rejected" => (retCount[r] = 0 /\ pending[r] = NoFile)


\* The files of the listing of worker w that hold a well-formed request (a file
\* renamed away since was one).
WellFormedListed(w) == {f \in dq[w].files : pending[f].req # Unparsable}

\* C34: a dequeue call whose listing of the pending directory held more
\* well-formed requests than there are workers dequeuing returns a request, not None.
C34_NoneOnlyWhenEmpty ==
    [][\A w \in Consumers :
          (dq[w].pc # "done" /\ dq'[w].pc = "done" /\ dq'[w].ret = None) =>
              Cardinality(WellFormedListed(w)) <= Cardinality(Consumers)]_vars

\* C35: with dequeue called again and again, every well-formed request of the
\* pending directory is returned by some call in the end, also when an older
\* entry of the directory cannot be read.
C35_EveryRequestReturned ==
    \A r \in Requests :
        (pending[r] # NoFile /\ pending[r].req # Unparsable) ~> (retCount[r] > 0)

(***************************************************************************)
(* Claims of Part II.                                                      *)
(***************************************************************************)
SubmitterDone == proc["sub"].pc \in {"s_returned", "s_raised"}

WorkerDone == proc["wk"].pc \in {"w_returned", "w_raised"}

\* The place of a status in QUEUED -> RUNNING -> {COMPLETED | FAILED | CANCELLED};
\* the PENDING that create_job writes is taken for the initial state.
Rank(status) ==
    CASE status \in {"pending", "queued"} -> 0
      [] status = "running" -> 1
      [] status \in Terminal -> 2

Forward(s, t) == s = t \/ Rank(s) < Rank(t)

\* C2: the status stored in the job record only moves forward through
\* QUEUED -> RUNNING -> {COMPLETED | FAILED | CANCELLED}, over every interleaving
\* of the submitter and the worker.
C2_StatusMovesForward ==
    [][(jobRec.exists /\ jobRec'.exists) => Forward(jobRec.status, jobRec'.status)]_vars

\* C3: once the stored status is COMPLETED, FAILED or CANCELLED no later
\* operation changes it.
C3_TerminalIsFinal ==
    [][(jobRec.exists /\ jobRec.status \in Terminal) =>
           jobRec'.status = jobRec.status]_vars

\* C4: when the worker has run a job and neither process has a step left, the
\* persisted status is COMPLETED or FAILED, whichever step failed.
C4_WorkerLeavesTerminal ==
    (WorkerDone /\ SubmitterDone) => jobRec.status \in {"completed", "failed"}

\* The submitter has returned its error because job_queue.enqueue raised.
QueueRefused ==
    /\ proc["sub"].pc = "s_raised"
    /\ rq = "none"
    /\ proc["sub"].emsg \in {"TypeError", "Redis unavailable"}

\* C5: when submit returns its error because the queue did not accept the job,
\* the persisted record is FAILED and carries the queue failure as error message.
C5_QueueFailureRecorded ==
    QueueRefused => (jobRec.status = "failed" /\ jobRec.error_message # None)

\* C6: after a successful submit the record exists with status QUEUED as long as
\* no worker has begun the job; the submitter never sets RUNNING.
C6_QueuedUntilWorkerStarts ==
    (proc["sub"].pc = "s_returned" /\ proc["wk"].pc = "w_idle") =>
        (jobRec.exists /\ jobRec.status = "queued")

CommandIndex(cmd) == CHOOSE i \in 1..Len(Commands) : Commands[i] = cmd

\* The commands run in the order init, plan, apply, output, each only after the
\* earlier ones exited 0, and the record holds no log entry of a command after
\* the last one invoked or about to be invoked.
PipelineInOrder ==
    /\ Len(cmds) <= Len(Commands)
    /\ \A i \in 1..Len(cmds) : cmds[i].cmd = Commands[i]
    /\ \A i \in 1..Len(cmds) : i < Len(cmds) => cmds[i].success
    /\ \A k \in 1..Len(jobRec.logs) :
          jobRec.logs[k].cmd # None =>
              /\ CommandIndex(jobRec.logs[k].cmd) <= Len(cmds) + 1
              /\ \A i \in 1..Len(cmds) :
                    ~cmds[i].success => CommandIndex(jobRec.logs[k].cmd) <= i

\* init, plan or apply exited non-zero in this run.
CommandFailure == \E i \in 1..Len(cmds) : ~cmds[i].success /\ cmds[i].cmd # "output"

\* C7: the commands are invoked in the order init, plan, apply, output, each only
\* if the earlier ones exited 0; after a non-zero exit of init, plan or apply no
\* later command is invoked or logged, and the job ends FAILED.
C7_FailedStepStopsPipeline ==
    /\ PipelineInOrder
    /\ (CommandFailure /\ WorkerDone /\ SubmitterDone) => jobRec.status = "failed"

\* The entries of log a are all in log b, in their places.
KeepsEntries(a, b) == Len(a) <= Len(b) /\ SubSeq(b, 1, Len(a)) = a

\* C13: below the 1000-entry bound no write of the job record, by the submitter
\* or the worker, removes a log entry that an earlier add_job_log stored.
C13_AppendedEntriesKept ==
    [][(jobRec.exists /\ jobRec'.exists /\ Len(jobRec.logs) < LogCap) =>
           KeepsEntries(jobRec.logs, jobRec'.logs)]_vars

\* init, plan and apply exited 0 and the output command exited non-zero or
\* printed text that is not JSON; the worker has returned, the submitter too.
OutputsUnread ==
    /\ WorkerDone /\ SubmitterDone
    /\ Len(cmds) = Len(Commands)
    /\ \A i \in 1..(Len(cmds) - 1) : cmds[i].success
    /\ \/ ~proc["wk"].success
       \/ proc["wk"].out /\ ~proc["wk"].json

\* C20: when only the output command fails, or prints no JSON, the job ends
\* COMPLETED, the stored terraform_output is the empty map and the log has a
\* WARNING entry about the outputs.
C20_OutputsBestEffort ==
    OutputsUnread =>
        /\ jobRec.status = "completed"
        /\ jobRec.terraform_output = "empty"
        /\ \E k \in 1..Len(jobRec.logs) :
              /\ jobRec.logs[k].level = "WARNING"
              /\ jobRec.logs[k].message = "Failed to parse terraform outputs"

\* C21: when init, plan or apply has exited non-zero and the job is FAILED, the
\* error recorded on the job carries the category the keyword classifier gives
\* to the stderr of that command.
C21_FailureCarriesCategory ==
    (CommandFailure /\ WorkerDone /\ jobRec.status = "failed") =>
        RecordedError(jobRec).type \in ErrorTypes

\* C36: a stored job record has completed_at set exactly when its status is
\* completed, failed or cancelled, however the writes of the submitter and of
\* the worker interleave.
C36_CompletedAtIffTerminal ==
    jobRec.exists => (jobRec.completed_at <=> jobRec.status \in Terminal)

(***************************************************************************)
(* Claims of Part III.                                                     *)
(***************************************************************************)
\* C12: of two approve calls, or an approve and a reject call, for one pending
\* request at most one takes effect: at most one job id is handed to
\* create_infrastructure, and no call is answered as a rejection when a job was
\* started for the request.
C12_OneDecisionTakesEffect ==
    /\ Cardinality(launched) <= 1
    /\ \A c \in Calls : call[c].response = "deleted" => launched = {}

(***************************************************************************)
(* Claims of Part IV.                                                      *)
(***************************************************************************)
\* The add_job_log calls that have written the record.
Appended == calls - Cardinality({w \in LogWriters : writer[w].pc # "idle"})

\* C14: after n appends by one writer the stored log holds min(n, 1000)
\* entries, the most recently appended ones in append order.
C14_LastThousandInOrder ==
    /\ Len(jobLog) = (IF Appended < LogCap THEN Appended ELSE LogCap)
    /\ \A i \in 1..Len(jobLog) : jobLog[i].message = Appended - Len(jobLog) + i

C14_Witness == Appended > LogCap /\ Len(jobLog) = LogCap /\ jobLog[1].message > 1

\* C15: whatever the interleaving of the add_job_log callers, the stored log
\* is in non-decreasing timestamp order.
C15_TimestampOrder ==
    \A i \in 1..(Len(jobLog) - 1) : jobLog[i].timestamp <= jobLog[i + 1].timestamp

\* Two entries of different times are stored while another caller, which read
\* the record earlier, is about to write.
C15_Witness ==
    /\ Len(jobLog) >= 2
    /\ jobLog[1].timestamp < jobLog[Len(jobLog)].timestamp
    /\ \E w \in LogWriters :
          writer[w].pc = "save" /\ Len(writer[w].held) < Len(jobLog)

(***************************************************************************)
(* Claims of Part V.                                                       *)
(***************************************************************************)
\* A send_to_job or broadcast call begins in this step.
EventEmitted == \E c \in SendCalls : sending[c].pc = "idle" /\ sending'[c].pc # "idle"

\* C16: every write that changes the status or the log of a job record comes
\* with an event sent on the job's channel.
C16_EveryChangeEmitsEvent ==
    [][(jobRec.exists /\ jobRec'.exists /\ jobRec' # jobRec) => EventEmitted]_vars

\* C17: each websocket is handed the messages of the send_to_job calls for one
\* job in the order in which the calls began (calls are numbered in that order).
C17_DeliveredInStartOrder ==
    [][\A w \in Sockets :
          (/\ delivered'[w] # delivered[w]
           /\ delivered[w].job \in WsJobs
           /\ delivered'[w].job = delivered[w].job) =>
              delivered'[w].msg > delivered[w].msg]_vars

\* C18: a websocket is handed the message of a call only if it was subscribed
\* to the job of the call when the call began.
C18_OnlySubscribersAtStart ==
    [][\A w \in Sockets :
          delivered'[w] # delivered[w] =>
              \E c \in SendCalls :
                  /\ delivered'[w] = Message(c, sending'[c].job)
                  /\ sending'[c].pc = "loop"
                  /\ w \in sending'[c].subscribed]_vars

\* A call for one job has sent to a subscriber, and a websocket that subscribed
\* to the job after the call began has been handed nothing.
C18_Witness ==
    \E c \in SendCalls, w \in Sockets :
        /\ sending[c].pc = "loop"
        /\ sending[c].job \in WsJobs
        /\ sending[c].sent # {}
        /\ Targets(c) = {}
        /\ w \in active_connections[sending[c].job] \ sending[c].subscribed
        /\ delivered[w] = NoMessage

\* C19: when a send_to_job or broadcast call returns, every websocket it failed
\* to send to is in no subscriber set and is no key of connection_jobs.
C19_FailedSocketPruned ==
    [][\A c \in SendCalls :
          (sending[c].pc = "loop" /\ sending'[c].pc = "returned") =>
              \A w \in sending[c].disconnected :
                  /\ \A j \in WsJobs : w \notin active_connections'[j]
                  /\ ~connection_jobs'[w].known]_vars

\* C37: after every call the two indexes agree (a websocket is in
\* active_connections[J] exactly when J is in connection_jobs[websocket]), and
\* when disconnect(websocket) returns the websocket is in no subscriber set.  A
\* job id without subscribers is the empty set here, as a missing key is.
C37_IndexesAgree ==
    [][/\ \A w \in Sockets, j \in WsJobs :
             (w \in active_connections'[j]) <=> (j \in connection_jobs'[w].jobs)
       /\ \A w \in Sockets :
             DisconnectSocket(w) => \A j \in WsJobs : w \notin active_connections'[j]]_vars

\* C38: a websocket is handed a message for job J only while it is subscribed
\* to J: once unsubscribe_from_job or disconnect has taken it out of the
\* subscriber set, no send_to_job call hands it one, also not a call that was
\* waiting at a send when it left.
C38_NothingAfterLeaving ==
    [][\A w \in Sockets :
          (delivered'[w] # delivered[w] /\ delivered'[w].job \in WsJobs) =>
              w \in active_connections[delivered'[w].job]]_vars

(***************************************************************************)
(* Claims of Part VI.                                                      *)
(***************************************************************************)
\* The words ws stand in the given text one after the other, in whatever case.
Mentions(ws) ==
    \E i \in 1..(Len(error_output) - Len(ws) + 1) :
        \A k \in 1..Len(ws) : error_output[i + k - 1].w = ws[k]

MentionsAuthentication == Mentions(<<"authentication">>) \/ Mentions(<<"access", "denied">>)

MentionsConflict == Mentions(<<"already", "exists">>)

MentionsNotFound == Mentions(<<"not", "found">>)

MentionsValidation == Mentions(<<"invalid">>) \/ Mentions(<<"validation">>)

MentionsTimeout == Mentions(<<"timeout">>)

\* C22: parse_terraform_error gives every text exactly one category, the first
\* that matches, letters compared without case, in the order authentication
\* ("authentication" or "access denied"), resource_conflict ("already exists"),
\* resource_not_found ("not found"), validation ("invalid" or "validation"),
\* timeout ("timeout"), unknown otherwise; the message is the text unchanged.
C22_FirstMatchingCategory ==
    error_info # NoInfo =>
        /\ error_info.message = error_output
        /\ error_info.type \in ErrorTypes
        /\ error_info.type = "authentication" <=> MentionsAuthentication
        /\ error_info.type = "resource_conflict" <=>
               (~MentionsAuthentication /\ MentionsConflict)
        /\ error_info.type = "resource_not_found" <=>
               (~MentionsAuthentication /\ ~MentionsConflict /\ MentionsNotFound)
        /\ error_info.type = "validation" <=>
               (/\ ~MentionsAuthentication /\ ~MentionsConflict /\ ~MentionsNotFound
                /\ MentionsValidation)
        /\ error_info.type = "timeout" <=>
               (/\ ~MentionsAuthentication /\ ~MentionsConflict /\ ~MentionsNotFound
                /\ ~MentionsValidation /\ MentionsTimeout)

\* A text with a capital word that mentions a conflict and a missing resource
\* has been classified.
C22_Witness ==
    /\ error_info.type = "resource_conflict"
    /\ MentionsNotFound
    /\ \E i \in 1..Len(error_output) :
          error_output[i].upper /\ error_output[i].w \in {"already", "exists"}

(***************************************************************************)
(* Claims of Part VII.                                                     *)
(***************************************************************************)
\* The configuration of the request names a template.
TemplateConfigured == "template" \in Keys(job_request.config)

ConfiguredTemplate == Get(job_request.config, "template").s

\* The template directories on disk.
Available == {templates.listing[i] : i \in 1..Len(templates.listing)}

\* The outcomes of the worker's preparations.
WorkerOutcomes == {prepared["worker"][i] : i \in 1..Len(prepared["worker"])}

Warned(o) == \E k \in 1..Len(o.logs) : o.logs[k].level = "WARNING"

\* C23 as stated: with a template key in the configuration, a workspace the
\* worker builds is built from the named template, whether or not its directory
\* or a fallback exists on disk.
C23_ConfiguredTemplateOnly ==
    TemplateConfigured =>
        \A o \in WorkerOutcomes :
            o.result = "returned" => (o.template = ConfiguredTemplate /\ o.source = "primary")

\* C23, amended: with a template key in the configuration the Template tag and
\* the mapping table are not consulted; the workspace is built from the named
\* template whenever its directory exists, and otherwise from a fallback
\* template on disk, with a WARNING entry, or not at all.
C23_ConfiguredTemplateFirst ==
    TemplateConfigured =>
        \A o \in WorkerOutcomes :
            IF templates.root /\ ConfiguredTemplate \in Available
            THEN /\ o.result = "returned"
                 /\ o.template = ConfiguredTemplate
                 /\ o.source = "primary"
                 /\ ~Warned(o)
            ELSE o.result = "returned" =>
                     /\ o.source = "fallback"
                     /\ o.template \in Available
                     /\ Warned(o)

\* The worker has built a workspace from the template the configuration names,
\* with another template in the Template tag and both directories on disk.
C23_Witness ==
    /\ TemplateConfigured
    /\ "Template" \in Keys(job_request.tags)
    /\ Get(job_request.tags, "Template").s # ConfiguredTemplate
    /\ {ConfiguredTemplate, Get(job_request.tags, "Template").s} \subseteq Available
    /\ template_mapping(job_request.resource_type) \in Available \ {ConfiguredTemplate}
    /\ \E o \in WorkerOutcomes : o.template = ConfiguredTemplate

\* The places of the resource type's fallback list whose template is on disk.
FallbacksOnDisk ==
    {i \in 1..Len(fallback_mapping(job_request.resource_type)) :
        fallback_mapping(job_request.resource_type)[i] \in Available}

C27_RenderingRepeats ==
    \A b \in Builders :
        \A i, j \in 1..Len(prepared[b]) :
            (prepared[b][i].result = "returned" /\ prepared[b][j].result = "returned") =>
                prepared[b][i].tfvars = prepared[b][j].tfvars

\* The values the text gives to a top-level variable.
TopLevel(text, key) ==
    {text[i].value : i \in {k \in 1..Len(text) :
        text[k].indent = 0 /\ text[k].key = key /\ text[k].quoted}}

\* The <<key, value>> entries of the block `key = { ... }` of the text.
Block(text, key) ==
    {<<text[i].key, text[i].value>> : i \in {k \in 1..Len(text) :
        /\ text[k].indent = 1
        /\ \E o \in 1..(k - 1) :
              /\ text[o].indent = 0 /\ text[o].key = key /\ text[o].value = "{"
              /\ \A m \in (o + 1)..(k - 1) : text[m].indent = 1}}

SystemTags == {"ManagedBy", "JobId", "Environment"}

\* C28: whatever keys the configuration has, the variables the worker renders
\* hold resource_name = the request's name, the request's environment and
\* region, and a tags map with every request tag, ManagedBy, JobId = job_id and
\* Environment = the request's environment.
C28_RequestFieldsRendered ==
    \A o \in WorkerOutcomes :
        o.result = "returned" =>
            /\ TopLevel(o.tfvars, "resource_name") = {job_request.name}
            /\ TopLevel(o.tfvars, "environment") = {job_request.environment}
            /\ TopLevel(o.tfvars, "region") = {job_request.region}
            /\ \A i \in 1..Len(job_request.tags) :
                  job_request.tags[i][1] \notin SystemTags =>
                      <<job_request.tags[i][1], job_request.tags[i][2].s>>
                          \in Block(o.tfvars, "tags")
            /\ <<"JobId", job_request.job_id>> \in Block(o.tfvars, "tags")
            /\ <<"Environment", job_request.environment>> \in Block(o.tfvars, "tags")
            /\ \E v \in {"internal-platform"} : <<"ManagedBy", v>> \in Block(o.tfvars, "tags")

\* C30: a second preparation of the workspace for the same job and request
\* succeeds and leaves the files the first one left.
C30_PreparationRepeats ==
    \A b \in Builders :
        (Len(prepared[b]) >= 2 /\ prepared[b][1].result = "returned") =>
            /\ prepared[b][2].result = "returned"
            /\ prepared[b][2].items = prepared[b][1].items

(***************************************************************************)
(* Claims of Part VIII.                                                    *)
(***************************************************************************)
\* The task has set the workspace up from a generated configuration or a
\* fallback, and a terraform command has run.
BuiltWithoutTemplate ==
    /\ \E i \in 1..Len(prepared["api"]) :
          prepared["api"][i].result = "returned" /\ prepared["api"][i].source # "primary"
    /\ \E i \in 1..Len(deploy.invoked) : deploy.invoked[i][1] = "terraform"

\* C25: when the workspace is built from something else than the template of
\* the configuration, the tag or the mapping (a fallback, a generated basic
\* configuration), the log of the job has a WARNING entry of that step before a
\* command of the pipeline runs.
C25_FallbackIsLogged ==
    BuiltWithoutTemplate =>
        \E k \in 1..Len(deploy.logs) :
            /\ deploy.logs[k].level \in {"WARNING", "WARN"}
            /\ deploy.logs[k].step = "terraform_setup"

\* There is no template for the job: the path get_template_path gives is not on disk.
NoTemplate == get_template_path(job_request.resource_type) = "" \/ ~templates.module

\* C26: when no template is available the job ends FAILED and no external
\* command, init, plan, apply, output or another subprocess, has been invoked.
C26_NoTemplateNoCommand ==
    (NoTemplate /\ deploy.pc = "done") =>
        (deploy.status = "FAILED" /\ deploy.invoked = <<>>)

Words(command) == {command[i] : i \in 1..Len(command)}

\* C29: in every run the plan command carries -destroy exactly when the action
\* of the job is destroy, and the apply command applies the plan file the plan
\* command of the run wrote.
C29_PlanFollowsAction ==
    \A i \in 1..Len(deploy.invoked) :
        /\ deploy.invoked[i][2] = "plan" =>
              ("-destroy" \in Words(deploy.invoked[i]) <=> job_request.action = "destroy")
        /\ deploy.invoked[i][2] = "apply" =>
              \E j \in 1..(i - 1) :
                  /\ deploy.invoked[j][2] = "plan"
                  /\ "-out=" \o deploy.invoked[i][Len(deploy.invoked[i])]
                        \in Words(deploy.invoked[j])


(***************************************************************************)
(* Claims of Part IX.                                                      *)
(***************************************************************************)
\* The request data of a record: what create_job stored of the submission.
RequestData(job_record) == <<job_record.job_id, job_record.created_at, job_record.metadata>>

\* C31: once a job has been created, the job_id, created_at and metadata of its
\* stored record stay what the first create_job wrote, whatever is called later.
C31_RequestDataWriteOnce ==
    created # NoStoredJob => RequestData(stored) = RequestData(created)

\* The cancellation request the code offers: update_job_status(job_id, CANCELLED).
CancelRequested == last_call.op = "update_job_status" /\ last_call.status = "cancelled"

\* C32: a cancellation request for a completed, failed or cancelled job returns
\* false and leaves the record as it was; for any other job it sets the status
\* to cancelled and records completed_at; and a record becomes cancelled only
\* from queued or running and only by a cancellation request.  The status
\* create_job gives a new job, pending, counts as queued here.
C32_CancelOnlyWhenActive ==
    /\ (CancelRequested /\ last_call.found # NoStoredJob) =>
           IF last_call.found.status \in Terminal
           THEN last_call.returned = "False" /\ stored = last_call.found
           ELSE stored.status = "cancelled" /\ stored.completed_at # NullTime
    /\ (stored.status = "cancelled" /\ last_call.found.status # "cancelled") =>
           (CancelRequested /\ last_call.found.status \in {"pending", "queued", "running"})

(***************************************************************************)
(* Claims of Part X.                                                       *)
(***************************************************************************)
\* The pools of one kind made so far.
PoolsMade(kind) == Cardinality({i \in 1..Len(pools) : pools[i] = kind})

====
